---- MODULE Spec2Model ----
(***************************************************************************)
(* A model of the sddl codec (CloudSoda/sddl): security identifiers, access *)
(* control entries and lists, and security descriptors, converted between   *)
(* structures, the self-relative binary layout and SDDL strings.            *)
(*                                                                          *)
(* Representation.                                                          *)
(*   - a Go string is a sequence of one-character strings;                  *)
(*   - a Go []byte is a sequence of numbers 0..255; a slice data[off:] is   *)
(*     the pair (data, off), as in Go (no copy is made);                    *)
(*   - uint8 and uint16 are numbers; uint32 is a tuple of 4 bytes and       *)
(*     uint64 a tuple of 8 bytes, most significant byte first, because the  *)
(*     values of interest (0x80000000, 2^48) do not fit a 32-bit integer;   *)
(*   - a Go pointer is Nil (<<>>) or <<value>>;                             *)
(*   - a call returns [kind, val, err]: kind is "ok", "err" (the error      *)
(*     return), "panic" (a run-time panic) or "hang" (the call never        *)
(*     returns).                                                            *)
(***************************************************************************)
EXTENDS Integers, Sequences, FiniteSets, TLC

VARIABLES
    orig,   \* the value the caller starts from: [ty, v]
    hist,   \* the codec calls made so far, oldest first: [op, on, res]
    loop    \* the position of a call that is modelled step by step

vars == <<orig, hist, loop>>

----------------------------------------------------------------------------
(* Results and pointers *)

Nil == <<>>
Some(v) == <<v>>

Ok(v) == [kind |-> "ok", val |-> v, err |-> ""]
Fail(e) == [kind |-> "err", val |-> <<>>, err |-> e]
Panic(e) == [kind |-> "panic", val |-> <<>>, err |-> e]
Hang == [kind |-> "hang", val |-> <<>>, err |-> "never returns"]
NoLoop == [pc |-> "idle"]

IsOk(r) == r.kind = "ok"
IsErr(r) == r.kind = "err"

----------------------------------------------------------------------------
(* Numbers *)

Max(a, b) == IF a >= b THEN a ELSE b
Min(a, b) == IF a <= b THEN a ELSE b

\* x & flag # 0, for a flag that is one bit
HasBit(x, flag) == (x \div flag) % 2 = 1
\* x | flag
SetBit(x, flag) == IF HasBit(x, flag) THEN x ELSE x + flag
\* x ^ flag
FlipBit(x, flag) == IF HasBit(x, flag) THEN x - flag ELSE x + flag

\* Go's conversions uint16(n) and byte(n) of a non-negative int
Uint16(n) == n % 65536
Uint8(n) == n % 256

Zeros(n) == [i \in 1..n |-> 0]
IsZero(bytes) == \A i \in 1..Len(bytes) : bytes[i] = 0

\* a small number as a uint32 / uint64
U32(n) == <<(n \div 16777216) % 256, (n \div 65536) % 256, (n \div 256) % 256, n % 256>>
U64(n) == Zeros(4) \o U32(n)
\* uint32(v) of a uint64 v, and byte(v)
U64ToU32(v) == SubSeq(v, 5, 8)
U64ToByte(v) == v[8]

Reverse(s) == [i \in 1..Len(s) |-> s[Len(s) + 1 - i]]

\* binary.LittleEndian.PutUint32 / Uint32, PutUint16 / Uint16
PutUint32LE(v) == Reverse(v)
PutUint16LE(n) == <<n % 256, (n \div 256) % 256>>
\* the bytes at data[at], data[at+1], ... counted from 0 as in Go
At(data, at) == data[at + 1]
Uint16LE(data, at) == At(data, at) + 256 * At(data, at + 1)
Uint32LE(data, at) == <<At(data, at + 3), At(data, at + 2), At(data, at + 1), At(data, at)>>

\* long division of a big-endian byte string by a small number
RECURSIVE DivBytes(_, _, _, _)
DivBytes(bytes, d, i, st) ==
    IF i > Len(bytes) THEN st
    ELSE LET cur == st.r * 256 + bytes[i]
         IN  DivBytes(bytes, d, i + 1, [q |-> Append(st.q, cur \div d), r |-> cur % d])

\* bytes * m + carry, from the least significant byte up; c is the carry out
RECURSIVE MulAddBytes(_, _, _, _)
MulAddBytes(bytes, m, carry, i) ==
    IF i = 0 THEN [v |-> bytes, c |-> carry]
    ELSE LET t == bytes[i] * m + carry
         IN  MulAddBytes([bytes EXCEPT ![i] = t % 256], m, t \div 256, i - 1)

----------------------------------------------------------------------------
(* Strings *)

LowerDigits == <<"0","1","2","3","4","5","6","7","8","9","a","b","c","d","e","f">>
UpperDigits == <<"0","1","2","3","4","5","6","7","8","9","A","B","C","D","E","F">>

\* the digits of a number, most significant first (fmt's %d, %x, %X verbs)
RECURSIVE FormatDigits(_, _, _, _)
FormatDigits(bytes, base, digits, acc) ==
    IF IsZero(bytes) THEN acc
    ELSE LET st == DivBytes(bytes, base, 1, [q |-> <<>>, r |-> 0])
         IN  FormatDigits(st.q, base, digits, <<digits[st.r + 1]>> \o acc)

FormatUint(bytes, base, digits) ==
    IF IsZero(bytes) THEN <<"0">> ELSE FormatDigits(bytes, base, digits, <<>>)

\* left padding with zeros to a width (the 0N flag of fmt)
PadZero(s, width) == [i \in 1..(Max(width, Len(s)) - Len(s)) |-> "0"] \o s

\* the value of a digit character as strconv reads it; 99 stands for "no digit"
DigitVal(c) ==
    CASE c = "0" -> 0 [] c = "1" -> 1 [] c = "2" -> 2 [] c = "3" -> 3 [] c = "4" -> 4
      [] c = "5" -> 5 [] c = "6" -> 6 [] c = "7" -> 7 [] c = "8" -> 8 [] c = "9" -> 9
      [] c \in {"a", "A"} -> 10 [] c \in {"b", "B"} -> 11 [] c \in {"c", "C"} -> 12
      [] c \in {"d", "D"} -> 13 [] c \in {"e", "E"} -> 14 [] c \in {"f", "F"} -> 15
      [] OTHER -> 99

\* the number of bytes a value of bitSize bits may occupy
FitsBits(v, bitSize) == IsZero(SubSeq(v, 1, 8 - bitSize \div 8))

\* strconv.ParseUint(s, base, bitSize) for base 10 and 16: a uint64 or an error
RECURSIVE ParseUintFrom(_, _, _, _, _)
ParseUintFrom(s, base, bitSize, i, acc) ==
    IF i > Len(s) THEN Ok(acc)
    ELSE IF DigitVal(s[i]) >= base THEN Fail("strconv.ErrSyntax")
    ELSE LET st == MulAddBytes(acc, base, DigitVal(s[i]), 8)
         IN  IF st.c > 0 \/ ~FitsBits(st.v, bitSize) THEN Fail("strconv.ErrRange")
             ELSE ParseUintFrom(s, base, bitSize, i + 1, st.v)

ParseUint(s, base, bitSize) ==
    IF Len(s) = 0 THEN Fail("strconv.ErrSyntax")
    ELSE ParseUintFrom(s, base, bitSize, 1, Zeros(8))

\* strings.ToLower
UpperLetters == <<"A","B","C","D","E","F","G","H","I","J","K","L","M",
                  "N","O","P","Q","R","S","T","U","V","W","X","Y","Z">>
LowerLetters == <<"a","b","c","d","e","f","g","h","i","j","k","l","m",
                  "n","o","p","q","r","s","t","u","v","w","x","y","z">>
ToLowerChar(c) ==
    IF \E i \in 1..26 : UpperLetters[i] = c
    THEN LowerLetters[CHOOSE i \in 1..26 : UpperLetters[i] = c]
    ELSE c
ToLower(s) == [i \in 1..Len(s) |-> ToLowerChar(s[i])]
\* s[from:], counted from 0 as in Go
From(s, from) == SubSeq(s, from + 1, Len(s))
\* s[from:to]
Slice(s, from, to) == SubSeq(s, from + 1, to)

HasPrefix(s, p) == Len(s) >= Len(p) /\ SubSeq(s, 1, Len(p)) = p
HasSuffix(s, p) == Len(s) >= Len(p) /\ SubSeq(s, Len(s) - Len(p) + 1, Len(s)) = p

\* strings.Index(s[off:], p): the first position (from 0, relative to off)
\* where p occurs, or -1; the search looks at a window and, when p is not in
\* it, at the next window of twice the size
MatchAt(s, p, i) == \A k \in 1..Len(p) : s[i + k - 1] = p[k]
RECURSIVE IndexScan(_, _, _, _, _)
IndexScan(s, p, off, lo, width) ==
    LET last == Len(s) - Len(p) + 1
        hi == Min(last, lo + width - 1)
        hits == {i \in lo..hi : MatchAt(s, p, i)}
    IN  IF hits # {} THEN (CHOOSE i \in hits : \A j \in hits : i <= j) - 1 - off
        ELSE IF hi >= last THEN -1
        ELSE IndexScan(s, p, off, hi + 1, 2 * width)

IndexAt(s, off, p) == IndexScan(s, p, off, off + 1, 64)
Index(s, p) == IndexAt(s, 0, p)

\* strings.Split(s, sep) for a one-character separator: the pieces between
\* the separators, in order
Split(s, sep) ==
    LET seps == {i \in 1..Len(s) : s[i] = sep}
        n == Cardinality(seps)
        pos(k) == IF k = 0 THEN 0
                  ELSE IF k = n + 1 THEN Len(s) + 1
                  ELSE CHOOSE i \in seps : Cardinality({j \in seps : j <= i}) = k
    IN  [k \in 1..(n + 1) |-> SubSeq(s, pos(k - 1) + 1, pos(k) - 1)]

\* the concatenation of a sequence of sequences, by halves
RECURSIVE ConcatRange(_, _, _)
ConcatRange(ss, lo, hi) ==
    IF lo > hi THEN <<>>
    ELSE IF lo = hi THEN ss[lo]
    ELSE LET mid == (lo + hi) \div 2
         IN  ConcatRange(ss, lo, mid) \o ConcatRange(ss, mid + 1, hi)

Concat(ss) == ConcatRange(ss, 1, Len(ss))

\* the sum of a sequence of numbers, by halves
RECURSIVE SumRange(_, _, _)
SumRange(ns, lo, hi) ==
    IF lo > hi THEN 0
    ELSE IF lo = hi THEN ns[lo]
    ELSE LET mid == (lo + hi) \div 2
         IN  SumRange(ns, lo, mid) + SumRange(ns, mid + 1, hi)

Sum(ns) == SumRange(ns, 1, Len(ns))

----------------------------------------------------------------------------
(* The well-known tables.  A uint32 key or value is written as its 4 bytes, *)
(* most significant first.                                                  *)

\* canonical SID string -> alias
wellKnownSids ==
    (<<"S","-","1","-","0","-","0">> :> <<"N","U","L","L">>) @@
    (<<"S","-","1","-","1","-","0">> :> <<"W","D">>) @@
    (<<"S","-","1","-","2","-","0">> :> <<"L","G">>) @@
    (<<"S","-","1","-","3","-","0">> :> <<"C","C">>) @@
    (<<"S","-","1","-","3","-","1">> :> <<"C","O">>) @@
    (<<"S","-","1","-","3","-","2">> :> <<"C","G">>) @@
    (<<"S","-","1","-","3","-","3">> :> <<"O","W">>) @@
    (<<"S","-","1","-","5","-","1">> :> <<"D","U">>) @@
    (<<"S","-","1","-","5","-","2">> :> <<"A","N">>) @@
    (<<"S","-","1","-","5","-","3">> :> <<"B","T">>) @@
    (<<"S","-","1","-","5","-","4">> :> <<"I","U">>) @@
    (<<"S","-","1","-","5","-","6">> :> <<"S","U">>) @@
    (<<"S","-","1","-","5","-","7">> :> <<"A","S">>) @@
    (<<"S","-","1","-","5","-","8">> :> <<"P","S">>) @@
    (<<"S","-","1","-","5","-","9">> :> <<"E","D">>) @@
    (<<"S","-","1","-","5","-","1","0">> :> <<"S","S">>) @@
    (<<"S","-","1","-","5","-","1","1">> :> <<"A","U">>) @@
    (<<"S","-","1","-","5","-","1","2">> :> <<"R","C">>) @@
    (<<"S","-","1","-","5","-","1","8">> :> <<"S","Y">>) @@
    (<<"S","-","1","-","5","-","3","2","-","5","4","4">> :> <<"B","A">>) @@
    (<<"S","-","1","-","5","-","3","2","-","5","4","5">> :> <<"B","U">>) @@
    (<<"S","-","1","-","5","-","3","2","-","5","4","6">> :> <<"B","G">>) @@
    (<<"S","-","1","-","5","-","3","2","-","5","4","7">> :> <<"P","U">>) @@
    (<<"S","-","1","-","5","-","3","2","-","5","4","8">> :> <<"A","O">>) @@
    (<<"S","-","1","-","5","-","3","2","-","5","4","9">> :> <<"S","O">>) @@
    (<<"S","-","1","-","5","-","3","2","-","5","5","0">> :> <<"P","O">>) @@
    (<<"S","-","1","-","5","-","3","2","-","5","5","1">> :> <<"B","O">>) @@
    (<<"S","-","1","-","5","-","3","2","-","5","5","2">> :> <<"R","E">>) @@
    (<<"S","-","1","-","5","-","3","2","-","5","5","4">> :> <<"R","U">>) @@
    (<<"S","-","1","-","5","-","3","2","-","5","5","5">> :> <<"R","D">>) @@
    (<<"S","-","1","-","5","-","3","2","-","5","5","6">> :> <<"N","O">>) @@
    (<<"S","-","1","-","5","-","6","4","-","1","0">> :> <<"A","A">>) @@
    (<<"S","-","1","-","5","-","6","4","-","1","4">> :> <<"R","A">>) @@
    (<<"S","-","1","-","5","-","6","4","-","2","1">> :> <<"O","A">>)

\* permission code -> the bit it stands for
accessMaskComponents ==
    (<<"G","A">> :> <<16,0,0,0>>) @@
    (<<"G","X">> :> <<32,0,0,0>>) @@
    (<<"G","W">> :> <<64,0,0,0>>) @@
    (<<"G","R">> :> <<128,0,0,0>>) @@
    (<<"M","A">> :> <<2,0,0,0>>) @@
    (<<"A","S">> :> <<1,0,0,0>>) @@
    (<<"S","Y">> :> <<0,16,0,0>>) @@
    (<<"W","O">> :> <<0,8,0,0>>) @@
    (<<"W","D">> :> <<0,4,0,0>>) @@
    (<<"R","C">> :> <<0,2,0,0>>) @@
    (<<"S","D">> :> <<0,1,0,0>>) @@
    (<<"C","R">> :> <<0,0,1,0>>) @@
    (<<"L","O">> :> <<0,0,0,128>>) @@
    (<<"D","T">> :> <<0,0,0,64>>) @@
    (<<"W","P">> :> <<0,0,0,32>>) @@
    (<<"R","P">> :> <<0,0,0,16>>) @@
    (<<"S","W">> :> <<0,0,0,8>>) @@
    (<<"L","C">> :> <<0,0,0,4>>) @@
    (<<"D","C">> :> <<0,0,0,2>>) @@
    (<<"C","C">> :> <<0,0,0,1>>)

\* combined access mask -> alias
wellKnownAccessMasks ==
    (<<0,31,1,255>> :> <<"F","A">>) @@
    (<<0,18,0,137>> :> <<"F","R">>) @@
    (<<0,18,1,22>> :> <<"F","W">>) @@
    (<<0,18,0,160>> :> <<"F","X">>)

\* init() fills each reverse table by ranging over the forward table and
\* storing reverse[v] = k.  No value occurs twice in a forward table, so the
\* order of the range does not matter and each reverse table is a function.
InvertTable(table) ==
    [v \in {table[k] : k \in DOMAIN table} |-> CHOOSE k \in DOMAIN table : table[k] = v]

reverseWellKnownSids == InvertTable(wellKnownSids)
reverseWellKnownAccessMasks == InvertTable(wellKnownAccessMasks)
reversedAccessMaskComponents == InvertTable(accessMaskComponents)

----------------------------------------------------------------------------
(* SID: [Revision: byte, IdentifierAuthority: uint64, SubAuthority: []uint32] *)

MaxSubAuthorities == 15

\* IdentifierAuthority >= 1<<48, and >= 1<<32
AuthorityGe48(a) == ~IsZero(SubSeq(a, 1, 2))
AuthorityGe32(a) == ~IsZero(SubSeq(a, 1, 4))

\* the bytes SID.Binary writes: revision, count, the low 6 bytes of the
\* authority most significant first, each sub-authority least significant first
sidBytes(s) ==
    <<s.Revision, Uint8(Len(s.SubAuthority))>>
        \o SubSeq(s.IdentifierAuthority, 3, 8)
        \o Concat([i \in 1..Len(s.SubAuthority) |-> PutUint32LE(s.SubAuthority[i])])

\* SID.Binary without its sub-authority count check: it would write the
\* count modulo 256 and every sub-authority given
SID_Binary_Unbounded(sp) ==
    IF sp = Nil THEN Fail("cannot convert nil SID to binary")
    ELSE LET s == sp[1]
         IN  IF s.Revision # 1 THEN Fail("ErrInvalidSIDFormat")
             ELSE IF AuthorityGe48(s.IdentifierAuthority) THEN Fail("ErrInvalidAuthority")
             ELSE Ok(sidBytes(s))

\* (s *SID) Binary()
SID_Binary(sp) ==
    IF sp = Nil THEN Fail("cannot convert nil SID to binary")
    ELSE LET s == sp[1]
         IN  IF s.Revision # 1 THEN Fail("ErrInvalidSIDFormat")
             ELSE IF Len(s.SubAuthority) > MaxSubAuthorities
                  THEN Fail("ErrTooManySubAuthorities")
             ELSE IF AuthorityGe48(s.IdentifierAuthority) THEN Fail("ErrInvalidAuthority")
             ELSE Ok(sidBytes(s))

\* the text SID.String builds before it looks the alias up
sidStr(s) ==
    LET authority == IF AuthorityGe32(s.IdentifierAuthority)
                     THEN <<"0", "x">> \o FormatUint(s.IdentifierAuthority, 16, LowerDigits)
                     ELSE FormatUint(s.IdentifierAuthority, 10, LowerDigits)
        subs == [i \in 1..Len(s.SubAuthority) |->
                    <<"-">> \o FormatUint(s.SubAuthority[i], 10, LowerDigits)]
    IN  <<"S", "-">> \o FormatUint(<<s.Revision>>, 10, LowerDigits) \o <<"-">>
            \o authority \o Concat(subs)

\* SID.String without the alias lookup: it would return the canonical text
SID_String_Canonical(sp) ==
    IF sp = Nil THEN Panic("nil pointer dereference")
    ELSE LET s == sp[1]
         IN  IF AuthorityGe48(s.IdentifierAuthority) THEN Fail("ErrInvalidAuthority")
             ELSE IF Len(s.SubAuthority) > MaxSubAuthorities THEN Fail("ErrTooManySubAuthorities")
             ELSE IF s.Revision # 1 THEN Fail("ErrInvalidSIDFormat")
             ELSE Ok(sidStr(s))

\* (s *SID) String(): the receiver is dereferenced without a nil check
SID_String(sp) ==
    LET Lookup(str) == IF str \in DOMAIN wellKnownSids THEN Ok(wellKnownSids[str]) ELSE Ok(str)
    IN  IF sp = Nil THEN Panic("nil pointer dereference")
        ELSE IF AuthorityGe48(sp[1].IdentifierAuthority) THEN Fail("ErrInvalidAuthority")
        ELSE IF Len(sp[1].SubAuthority) > MaxSubAuthorities
             THEN Fail("ErrTooManySubAuthorities")
        ELSE IF sp[1].Revision # 1 THEN Fail("ErrInvalidSIDFormat")
        ELSE Lookup(sidStr(sp[1]))

\* parseSIDBinary(data[off:])
parseSIDBinary(data, off) ==
    LET len == Len(data) - off
        subAuthorityCount == At(data, off + 1)
        neededLen == 8 + 4 * subAuthorityCount
    IN  IF len < 8 THEN Fail("invalid SID: it must be at least 8 bytes long")
        ELSE IF len < neededLen THEN Fail("invalid SID: truncated data")
        ELSE IF subAuthorityCount > MaxSubAuthorities
             THEN Fail("invalid SID: too many sub-authorities")
        ELSE Ok([Revision |-> At(data, off),
                 IdentifierAuthority |-> <<0, 0>> \o SubSeq(data, off + 3, off + 8),
                 SubAuthority |-> [i \in 1..subAuthorityCount |->
                                      Uint32LE(data, off + 8 + 4 * (i - 1))]])

\* the sub-authority loop of parseSIDString: the first error, or the values
RECURSIVE parseSubAuthorities(_, _, _)
parseSubAuthorities(parts, i, acc) ==
    IF i > Len(parts) THEN Ok(acc)
    ELSE LET sa == ParseUint(parts[i], 10, 32)
         IN  IF ~IsOk(sa) THEN Fail("ErrInvalidSubAuthority")
             ELSE parseSubAuthorities(parts, i + 1, Append(acc, U64ToU32(sa.val)))

\* parseSIDString(s)
parseSIDString(s0) ==
    LET s == IF s0 \in DOMAIN reverseWellKnownSids THEN reverseWellKnownSids[s0] ELSE s0
        parts == Split(From(s, 2), "-")
        Build(revision, authority, subs) ==
            IF ~HasPrefix(s, <<"S", "-">>) THEN Fail("ErrInvalidSIDFormat")
            ELSE IF Len(parts) < 2 THEN Fail("ErrInvalidSIDFormat")
            ELSE IF ~IsOk(revision) THEN Fail("ErrInvalidRevision")
            ELSE IF U64ToByte(revision.val) # 1 THEN Fail("ErrInvalidRevision")
            ELSE IF ~IsOk(authority) THEN Fail("ErrInvalidAuthority")
            ELSE IF AuthorityGe48(authority.val) THEN Fail("ErrInvalidAuthority")
            ELSE IF Len(parts) - 2 > MaxSubAuthorities THEN Fail("ErrTooManySubAuthorities")
            ELSE IF ~IsOk(subs) THEN subs
            ELSE Ok([Revision |-> U64ToByte(revision.val),
                     IdentifierAuthority |-> authority.val,
                     SubAuthority |-> subs.val])
    IN  Build(ParseUint(parts[1], 10, 8),
              IF HasPrefix(ToLower(parts[2]), <<"0", "x">>)
              THEN ParseUint(From(parts[2], 2), 16, 48)
              ELSE ParseUint(parts[2], 10, 48),
              parseSubAuthorities(parts, 3, <<>>))

----------------------------------------------------------------------------
(* The ACE codec *)

ACCESS_ALLOWED_ACE_TYPE == 0
ACCESS_DENIED_ACE_TYPE == 1
SYSTEM_AUDIT_ACE_TYPE == 2
SYSTEM_ALARM_ACE_TYPE == 3
ACCESS_ALLOWED_OBJECT_ACE_TYPE == 5

OBJECT_INHERIT_ACE == 1
CONTAINER_INHERIT_ACE == 2
NO_PROPAGATE_INHERIT_ACE == 4
INHERIT_ONLY_ACE == 8
INHERITED_ACE == 16
SUCCESSFUL_ACCESS_ACE == 64
FAILED_ACCESS_ACE == 128

\* a & b and a ^ b on bytes, and on uint32 values byte by byte
Pow2 == <<1, 2, 4, 8, 16, 32, 64, 128>>
AndByte(a, b) == Sum([i \in 1..8 |-> Pow2[i] * (((a \div Pow2[i]) % 2) * ((b \div Pow2[i]) % 2))])
XorByte(a, b) == Sum([i \in 1..8 |-> Pow2[i] * ((((a \div Pow2[i]) % 2) + ((b \div Pow2[i]) % 2)) % 2)])
And32(a, b) ==
    <<AndByte(a[1], b[1]), AndByte(a[2], b[2]), AndByte(a[3], b[3]), AndByte(a[4], b[4])>>
Xor32(a, b) ==
    <<XorByte(a[1], b[1]), XorByte(a[2], b[2]), XorByte(a[3], b[3]), XorByte(a[4], b[4])>>

\* a < b on uint32 values
Less32(a, b) == \E i \in 1..4 : a[i] < b[i] /\ \A j \in 1..(i - 1) : a[j] = b[j]

\* slices.Sort of the keys of reversedAccessMaskComponents
sortedMaskValues ==
    LET keys == DOMAIN reversedAccessMaskComponents
    IN  [k \in 1..Cardinality(keys) |->
            CHOOSE v \in keys : Cardinality({w \in keys : Less32(w, v)}) = k - 1]

\* the loop of decomposeAccessMask over the sorted values
RECURSIVE decomposeFrom(_, _, _)
decomposeFrom(i, components, mask) ==
    IF i > Len(sortedMaskValues) THEN [components |-> components, mask |-> mask]
    ELSE LET val == sortedMaskValues[i]
         IN  IF And32(mask, val) = val
             THEN decomposeFrom(i + 1,
                                Append(components, reversedAccessMaskComponents[val]),
                                Xor32(mask, val))
             ELSE decomposeFrom(i + 1, components, mask)

\* decomposeAccessMask(mask): the codes of the known bits, and the rest
decomposeAccessMask(mask) == decomposeFrom(1, <<>>, mask)

\* (e *ACE) Binary()
ACE_Binary(ep) ==
    LET Build(e, sidBinary) ==
            IF ~IsOk(sidBinary) THEN Fail("error converting SID to binary")
            ELSE IF 4 + 4 + Len(sidBinary.val) > 65535 THEN Fail("ACE size exceeds maximum size")
            ELSE IF Uint16(4 + 4 + Len(sidBinary.val)) # e.Header[1].AceSize
                 THEN Fail("calculated ACE size doesn't match header size")
            ELSE Ok(<<e.Header[1].AceType, e.Header[1].AceFlags>>
                    \o PutUint16LE(Uint16(4 + 4 + Len(sidBinary.val)))
                    \o PutUint32LE(e.AccessMask)
                    \o sidBinary.val)
    IN  IF ep = Nil THEN Fail("cannot convert nil ACE to binary")
        ELSE IF ep[1].Header = Nil THEN Fail("cannot convert ACE with nil header to binary")
        ELSE IF ep[1].SID = Nil THEN Fail("cannot convert ACE with nil SID to binary")
        ELSE Build(ep[1], SID_Binary(ep[1].SID))

\* the type, flags and access mask fields ACE.String writes
aceTypeStr(aceType) ==
    IF aceType = ACCESS_ALLOWED_ACE_TYPE THEN <<"A">>
    ELSE IF aceType = ACCESS_DENIED_ACE_TYPE THEN <<"D">>
    ELSE IF aceType = SYSTEM_AUDIT_ACE_TYPE THEN <<"A", "U">>
    ELSE <<"0", "x">> \o PadZero(FormatUint(<<aceType>>, 16, UpperDigits), 2)

aceFlagsStr(aceType, aceFlags) ==
    (IF aceType = SYSTEM_AUDIT_ACE_TYPE /\ HasBit(aceFlags, SUCCESSFUL_ACCESS_ACE)
     THEN <<"S", "A">> ELSE <<>>)
    \o (IF aceType = SYSTEM_AUDIT_ACE_TYPE /\ HasBit(aceFlags, FAILED_ACCESS_ACE)
        THEN <<"F", "A">> ELSE <<>>)
    \o (IF HasBit(aceFlags, OBJECT_INHERIT_ACE) THEN <<"O", "I">> ELSE <<>>)
    \o (IF HasBit(aceFlags, CONTAINER_INHERIT_ACE) THEN <<"C", "I">> ELSE <<>>)
    \o (IF HasBit(aceFlags, INHERIT_ONLY_ACE) THEN <<"I", "O">> ELSE <<>>)
    \o (IF HasBit(aceFlags, INHERITED_ACE) THEN <<"I", "D">> ELSE <<>>)

accessStr(mask) ==
    LET Rest(d) ==
            IF ~IsZero(d.mask)
            THEN <<"0", "x">> \o PadZero(FormatUint(mask, 16, UpperDigits), 8)
            ELSE Concat(d.components)
    IN  IF mask \in DOMAIN wellKnownAccessMasks THEN wellKnownAccessMasks[mask]
        ELSE Rest(decomposeAccessMask(mask))

\* (e *ACE) String(): e.SID is dereferenced without a nil check
ACE_String(ep) ==
    LET Build(e, h, sid) ==
            IF ~IsOk(sid) THEN sid
            ELSE Ok(<<"(">> \o aceTypeStr(h.AceType) \o <<";">>
                    \o aceFlagsStr(h.AceType, h.AceFlags) \o <<";">>
                    \o accessStr(e.AccessMask) \o <<";", ";", ";">>
                    \o sid.val \o <<")">>)
    IN  IF ep = Nil \/ ep[1].Header = Nil THEN Ok(<<"N", "U", "L", "L">>)
        ELSE Build(ep[1], ep[1].Header[1], SID_String(ep[1].SID))

\* parseACEBinary(data[off:]): the length is held in a uint16
parseACEBinary(data, off) ==
    LET dataLen == Uint16(Len(data) - off)
        aceSize == Uint16LE(data, off + 2)
        Build(sid) ==
            IF ~IsOk(sid) THEN Fail("error parsing ACE SID")
            ELSE Ok([Header |-> Some([AceType |-> At(data, off),
                                      AceFlags |-> At(data, off + 1),
                                      AceSize |-> aceSize]),
                     AccessMask |-> Uint32LE(data, off + 4),
                     SID |-> Some(sid.val)])
    IN  IF dataLen < 16 THEN Fail("invalid ACE: too short")
        ELSE IF dataLen < aceSize THEN Fail("invalid ACE: data length doesn't match ACE size")
        ELSE Build(parseSIDBinary(data, off + 8))

\* parseAccessMask(maskStr): an alias of the table or 0x and hexadecimal digits
parseAccessMask(maskStr) ==
    IF maskStr \in DOMAIN reverseWellKnownAccessMasks
    THEN Ok(reverseWellKnownAccessMasks[maskStr])
    ELSE IF HasPrefix(maskStr, <<"0", "x">>)
    THEN LET value == ParseUint(From(maskStr, 2), 16, 32)
         IN  IF ~IsOk(value) THEN Fail("invalid hexadecimal access mask")
             ELSE Ok(U64ToU32(value.val))
    ELSE Fail("unknown access mask")

\* parseACEType(typeStr)
parseACEType(typeStr) ==
    IF typeStr = <<"A">> THEN Ok(ACCESS_ALLOWED_ACE_TYPE)
    ELSE IF typeStr = <<"D">> THEN Ok(ACCESS_DENIED_ACE_TYPE)
    ELSE IF typeStr = <<"A", "U">> THEN Ok(SYSTEM_AUDIT_ACE_TYPE)
    ELSE IF typeStr = <<"A", "L">> THEN Ok(SYSTEM_ALARM_ACE_TYPE)
    ELSE IF typeStr = <<"O", "A">> THEN Ok(ACCESS_ALLOWED_OBJECT_ACE_TYPE)
    ELSE IF HasPrefix(typeStr, <<"0", "x">>)
    THEN LET value == ParseUint(From(typeStr, 2), 16, 8)
         IN  IF ~IsOk(value) THEN Fail("invalid hexadecimal ACE type")
             ELSE Ok(U64ToByte(value.val))
    ELSE Fail("invalid ACE type")

\* the bit an ACE flag code stands for, 0 for an unknown code
aceFlagBit(flag) ==
    IF flag = <<"C", "I">> THEN CONTAINER_INHERIT_ACE
    ELSE IF flag = <<"O", "I">> THEN OBJECT_INHERIT_ACE
    ELSE IF flag = <<"N", "P">> THEN NO_PROPAGATE_INHERIT_ACE
    ELSE IF flag = <<"I", "O">> THEN INHERIT_ONLY_ACE
    ELSE IF flag = <<"I", "D">> THEN INHERITED_ACE
    ELSE IF flag = <<"S", "A">> THEN SUCCESSFUL_ACCESS_ACE
    ELSE IF flag = <<"F", "A">> THEN FAILED_ACCESS_ACE
    ELSE 0

\* parseFlagsForACEType(flagsStr, aceType): the empty string returns before
\* any check; otherwise the flags are read two characters at a time and the
\* first iteration that fails decides the error
parseFlagsForACEType(flagsStr, aceType) ==
    IF flagsStr = <<>> THEN Ok(0)
    ELSE LET n == (Len(flagsStr) + 1) \div 2
             flag(k) == SubSeq(flagsStr, 2 * k - 1, 2 * k)
             isAudit(k) == flag(k) \in {<<"S", "A">>, <<"F", "A">>}
             failure(k) ==
                 IF 2 * k > Len(flagsStr) THEN "invalid flag format"
                 ELSE IF isAudit(k) /\ aceType # SYSTEM_AUDIT_ACE_TYPE
                      THEN "audit flags (SA/FA) are only valid for audit ACEs"
                 ELSE IF aceFlagBit(flag(k)) = 0 THEN "unknown flag"
                 ELSE ""
             failing == {k \in 1..n : failure(k) # ""}
             bits == {aceFlagBit(flag(k)) : k \in 1..n}
             flags == Sum([i \in 1..8 |-> IF Pow2[i] \in bits THEN Pow2[i] ELSE 0])
             hasAuditFlags == \E k \in 1..n : isAudit(k)
         IN  IF failing # {}
             THEN Fail(failure(CHOOSE k \in failing : \A j \in failing : k <= j))
             ELSE IF aceType = SYSTEM_AUDIT_ACE_TYPE /\ ~hasAuditFlags
             THEN Fail("audit ACEs must specify at least one audit flag (SA/FA)")
             ELSE Ok(flags)

\* an ACE size that leaves out the access mask
sizeOfACE_HeaderAndSID(sid) == 4 + 8 + 4 * Len(sid.SubAuthority)

\* aceSize := 4 + 4 + sidSize, with sidSize := 8 + (4 * len(sid.SubAuthority))
sizeOfACE(sid) == 4 + 4 + 8 + 4 * Len(sid.SubAuthority)

\* parseACEString(aceStr)
parseACEString(aceStr) ==
    LET parts == Split(Slice(aceStr, 1, Len(aceStr) - 1), ";")
        Build(aceType, aceFlags, accessMask, sid) ==
            IF ~IsOk(aceType) THEN Fail("invalid ACE type")
            ELSE IF ~IsOk(aceFlags) THEN Fail("invalid ACE flags")
            ELSE IF ~IsOk(accessMask) THEN Fail("invalid access mask")
            ELSE IF ~IsOk(sid) THEN Fail("invalid SID")
            ELSE Ok([Header |-> Some([AceType |-> aceType.val,
                                      AceFlags |-> aceFlags.val,
                                      AceSize |-> Uint16(sizeOfACE(sid.val))]),
                     AccessMask |-> accessMask.val,
                     SID |-> Some(sid.val)])
    IN  IF Len(aceStr) < 2 \/ ~HasPrefix(aceStr, <<"(">>) \/ ~HasSuffix(aceStr, <<")">>)
        THEN Fail("invalid ACE string format: must be enclosed in parentheses")
        ELSE IF Len(parts) # 6
        THEN Fail("invalid ACE string format: expected 6 components")
        ELSE Build(parseACEType(parts[1]),
                   parseFlagsForACEType(parts[2], parseACEType(parts[1]).val),
                   parseAccessMask(parts[3]),
                   parseSIDString(parts[6]))

----------------------------------------------------------------------------
(* The ACL codec *)

SE_OWNER_DEFAULTED == 1
SE_GROUP_DEFAULTED == 2
SE_DACL_PRESENT == 4
SE_DACL_DEFAULTED == 8
SE_SACL_PRESENT == 16
SE_SACL_DEFAULTED == 32
SE_DACL_AUTO_INHERIT_RE == 256
SE_SACL_AUTO_INHERIT_RE == 512
SE_DACL_AUTO_INHERITED == 1024
SE_SACL_AUTO_INHERITED == 2048
SE_DACL_PROTECTED == 4096
SE_SACL_PROTECTED == 8192
SE_SELF_RELATIVE == 32768

\* ACL.Binary without the comparison of the count of the header with the
\* number of ACEs
ACL_Binary_CountUnchecked(ap) ==
    LET aclSize(aceBinaries) == 8 + Sum([i \in 1..Len(aceBinaries) |-> Len(aceBinaries[i].val)])
        Build(a, n, aceBinaries) ==
            IF \E i \in 1..n : ~IsOk(aceBinaries[i]) THEN Fail("error converting ACE to binary")
            ELSE IF aclSize(aceBinaries) > 65535
                 THEN Fail("ACL size exceeds maximum size of 65535 bytes")
            ELSE IF Uint16(aclSize(aceBinaries)) # a.AclSize
                 THEN Fail("calculated ACL size doesn't match header size")
            ELSE Ok(<<a.AclRevision, a.Sbzl>>
                    \o PutUint16LE(Uint16(aclSize(aceBinaries)))
                    \o PutUint16LE(a.AceCount)
                    \o PutUint16LE(a.Sbz2)
                    \o Concat([i \in 1..n |-> aceBinaries[i].val]))
    IN  IF ap = Nil THEN Fail("cannot convert nil ACL to binary")
        ELSE Build(ap[1], Len(ap[1].ACEs),
                   [i \in 1..Len(ap[1].ACEs) |-> ACE_Binary(Some(ap[1].ACEs[i]))])

\* (a *ACL) Binary()
ACL_Binary(ap) ==
    LET aclSize(aceBinaries) == 8 + Sum([i \in 1..Len(aceBinaries) |-> Len(aceBinaries[i].val)])
        Build(a, n, aceBinaries) ==
            IF \E i \in 1..n : ~IsOk(aceBinaries[i]) THEN Fail("error converting ACE to binary")
            ELSE IF aclSize(aceBinaries) > 65535
                 THEN Fail("ACL size exceeds maximum size of 65535 bytes")
            ELSE IF Uint16(aclSize(aceBinaries)) # a.AclSize
                 THEN Fail("calculated ACL size doesn't match header size")
            ELSE IF Uint16(n) # a.AceCount
                 THEN Fail("actual ACE count doesn't match header count")
            ELSE Ok(<<a.AclRevision, a.Sbzl>>
                    \o PutUint16LE(Uint16(aclSize(aceBinaries)))
                    \o PutUint16LE(Uint16(n))
                    \o PutUint16LE(a.Sbz2)
                    \o Concat([i \in 1..n |-> aceBinaries[i].val]))
    IN  IF ap = Nil THEN Fail("cannot convert nil ACL to binary")
        ELSE Build(ap[1], Len(ap[1].ACEs),
                   [i \in 1..Len(ap[1].ACEs) |-> ACE_Binary(Some(ap[1].ACEs[i]))])

\* the flags ACL.String writes for an ACL type and control value
aclFlagsStr(aclType, control) ==
    LET flag(bit, code) == IF HasBit(control, bit) THEN code ELSE <<>>
    IN  IF aclType = <<"D">>
        THEN flag(SE_DACL_PROTECTED, <<"P">>) \o flag(SE_DACL_AUTO_INHERITED, <<"A", "I">>)
                \o flag(SE_DACL_AUTO_INHERIT_RE, <<"A", "R">>)
                \o flag(SE_DACL_DEFAULTED, <<"R">>)
        ELSE IF aclType = <<"S">>
        THEN flag(SE_SACL_PROTECTED, <<"P">>) \o flag(SE_SACL_AUTO_INHERITED, <<"A", "I">>)
                \o flag(SE_SACL_AUTO_INHERIT_RE, <<"A", "R">>)
                \o flag(SE_SACL_DEFAULTED, <<"R">>)
        ELSE <<>>

\* (a *ACL) String(): a is dereferenced without a nil check; the first ACE
\* whose String() fails decides the result
ACL_String(ap) ==
    LET Build(a, n, aces) ==
            IF \E i \in 1..n : ~IsOk(aces[i])
            THEN aces[CHOOSE i \in 1..n : ~IsOk(aces[i]) /\ \A j \in 1..(i - 1) : IsOk(aces[j])]
            ELSE Ok(a.AclType \o <<":">> \o aclFlagsStr(a.AclType, a.Control)
                    \o Concat([i \in 1..n |-> aces[i].val]))
    IN  IF ap = Nil THEN Panic("nil pointer dereference")
        ELSE Build(ap[1], Len(ap[1].ACEs),
                   [i \in 1..Len(ap[1].ACEs) |-> ACE_String(Some(ap[1].ACEs[i]))])

\* an iteration of the loop of parseACLBinary that would put the ACE it read
\* in front of the ones read before
aclBinaryStep_Prepend(data, off, aclSize, st) ==
    LET Parsed(ace) ==
            IF ~IsOk(ace) THEN [st EXCEPT !.res = Fail("error parsing ACE")]
            ELSE [offset |-> Uint16(st.offset + ace.val.Header[1].AceSize),
                  aces |-> <<ace.val>> \o st.aces,
                  res |-> st.res]
    IN  IF st.offset >= aclSize
        THEN [st EXCEPT !.res = Fail("invalid ACL: offset is bigger than AclSize")]
        ELSE IF st.offset > Len(data) - off
        THEN [st EXCEPT !.res = Panic("slice bounds out of range")]
        ELSE Parsed(parseACEBinary(data, off + st.offset))

\* an iteration of the loop of parseACLBinary that would advance by the
\* bytes the ACE holds, 8 and its SID, instead of by the size it declares
aclBinaryStep_ByContent(data, off, aclSize, st) ==
    LET Parsed(ace) ==
            IF ~IsOk(ace) THEN [st EXCEPT !.res = Fail("error parsing ACE")]
            ELSE [offset |-> Uint16(st.offset + 8 + Len(sidBytes(ace.val.SID[1]))),
                  aces |-> Append(st.aces, ace.val),
                  res |-> st.res]
    IN  IF st.offset >= aclSize
        THEN [st EXCEPT !.res = Fail("invalid ACL: offset is bigger than AclSize")]
        ELSE IF st.offset > Len(data) - off
        THEN [st EXCEPT !.res = Panic("slice bounds out of range")]
        ELSE Parsed(parseACEBinary(data, off + st.offset))

\* one iteration of the loop of parseACLBinary over data[off:]; st holds the
\* uint16 offset, the ACEs read so far and the outcome once the call has ended
aclBinaryStep(data, off, aclSize, st) ==
    LET Parsed(ace) ==
            IF ~IsOk(ace) THEN [st EXCEPT !.res = Fail("error parsing ACE")]
            ELSE [offset |-> Uint16(st.offset + ace.val.Header[1].AceSize),
                  aces |-> Append(st.aces, ace.val),
                  res |-> st.res]
    IN  IF st.offset >= aclSize
        THEN [st EXCEPT !.res = Fail("invalid ACL: offset is bigger than AclSize")]
        ELSE IF st.offset > Len(data) - off
        THEN [st EXCEPT !.res = Panic("slice bounds out of range")]
        ELSE Parsed(parseACEBinary(data, off + st.offset))

\* iterations lo..hi of the loop, by halves; an ended call stays ended
RECURSIVE aclBinaryLoop(_, _, _, _, _, _)
aclBinaryLoop(data, off, aclSize, st, lo, hi) ==
    IF st.res.kind # "none" \/ lo > hi THEN st
    ELSE IF lo = hi THEN aclBinaryStep(data, off, aclSize, st)
    ELSE LET mid == (lo + hi) \div 2
         IN  aclBinaryLoop(data, off, aclSize,
                           aclBinaryLoop(data, off, aclSize, st, lo, mid), mid + 1, hi)

\* the outcome of a loop that is still running
Running == [kind |-> "none", val |-> <<>>, err |-> ""]

\* parseACLBinary(data[off:], aclType, control): the length is held in a uint16
parseACLBinary(data, off, aclType, control) ==
    LET aclSize == Uint16LE(data, off + 2)
        aceCount == Uint16LE(data, off + 4)
        Build(end) ==
            IF end.res.kind # "none" THEN end.res
            ELSE Ok([AclRevision |-> At(data, off),
                     Sbzl |-> At(data, off + 1),
                     AclSize |-> aclSize,
                     AceCount |-> aceCount,
                     Sbz2 |-> Uint16LE(data, off + 6),
                     AclType |-> aclType,
                     Control |-> control,
                     ACEs |-> end.aces])
    IN  IF Uint16(Len(data) - off) < 8 THEN Fail("invalid ACL: too short")
        ELSE Build(aclBinaryLoop(data, off, aclSize,
                                 [offset |-> 8, aces |-> <<>>, res |-> Running], 1, aceCount))

\* parseACLFlags(s): the codes of s from position i on (from 1), two-letter
\* codes tried first
RECURSIVE parseACLFlagsFrom(_, _, _)
parseACLFlagsFrom(s, i, flags) ==
    IF i > Len(s) THEN Ok(flags)
    ELSE LET code1 == <<s[i]>>
             code2 == IF i + 1 <= Len(s) THEN <<s[i], s[i + 1]>> ELSE <<>>
         IN  IF code2 \in {<<"A", "I">>, <<"A", "R">>, <<"N", "O">>, <<"I", "O">>}
             THEN parseACLFlagsFrom(s, i + 2, Append(flags, code2))
             ELSE IF code1 \in {<<"P">>, <<"R">>}
             THEN parseACLFlagsFrom(s, i + 1, Append(flags, code1))
             ELSE Fail("invalid flag")

parseACLFlags(s) == parseACLFlagsFrom(s, 1, <<>>)

\* a control value for which NO would stand for the protected bit
aclControl_NOProtects(aclType, baseControl, flags) ==
    LET has(code) == \E i \in 1..Len(flags) : flags[i] = code
        pick(dacl, sacl) == IF aclType = <<"D">> THEN dacl ELSE sacl
        c1 == IF has(<<"P">>) \/ has(<<"N", "O">>)
              THEN SetBit(baseControl, pick(SE_DACL_PROTECTED, SE_SACL_PROTECTED))
              ELSE baseControl
        c2 == IF has(<<"A", "I">>)
              THEN SetBit(c1, pick(SE_DACL_AUTO_INHERITED, SE_SACL_AUTO_INHERITED))
              ELSE c1
        c3 == IF has(<<"A", "R">>)
              THEN SetBit(c2, pick(SE_DACL_AUTO_INHERIT_RE, SE_SACL_AUTO_INHERIT_RE))
              ELSE c2
    IN  IF has(<<"R">>) THEN SetBit(c3, pick(SE_DACL_DEFAULTED, SE_SACL_DEFAULTED)) ELSE c3

\* the control value parseACLString derives from the parsed flags; NO and IO
\* have no control bit
aclControl(aclType, baseControl, flags) ==
    LET has(code) == \E i \in 1..Len(flags) : flags[i] = code
        pick(dacl, sacl) == IF aclType = <<"D">> THEN dacl ELSE sacl
        c1 == IF has(<<"P">>)
              THEN SetBit(baseControl, pick(SE_DACL_PROTECTED, SE_SACL_PROTECTED))
              ELSE baseControl
        c2 == IF has(<<"A", "I">>)
              THEN SetBit(c1, pick(SE_DACL_AUTO_INHERITED, SE_SACL_AUTO_INHERITED))
              ELSE c1
        c3 == IF has(<<"A", "R">>)
              THEN SetBit(c2, pick(SE_DACL_AUTO_INHERIT_RE, SE_SACL_AUTO_INHERIT_RE))
              ELSE c2
    IN  IF has(<<"R">>) THEN SetBit(c3, pick(SE_DACL_DEFAULTED, SE_SACL_DEFAULTED)) ELSE c3

\* one iteration of the ACE loop of parseACLString; st holds the position in
\* s where remaining starts (from 0), the ACEs read so far and the outcome
\* once the call has ended
aclStringStep(s, st) ==
    LET closePos == IndexAt(s, st.pos, <<")">>)
        Parsed(ace) ==
            IF ~IsOk(ace) THEN [st EXCEPT !.res = Fail("error parsing ACE")]
            ELSE [pos |-> st.pos + closePos + 1,
                  aces |-> Append(st.aces, ace.val),
                  res |-> st.res]
    IN  IF s[st.pos + 1] # "("
        THEN [st EXCEPT !.res = Fail("invalid ACE format: expected '('")]
        ELSE IF closePos = -1
        THEN [st EXCEPT !.res = Fail("invalid ACE format: missing closing parenthesis")]
        ELSE Parsed(parseACEString(Slice(s, st.pos, st.pos + closePos + 1)))

\* iterations lo..hi of the loop, by halves; the loop is over when the call
\* has ended or nothing remains
RECURSIVE aclStringLoop(_, _, _, _)
aclStringLoop(s, st, lo, hi) ==
    IF st.res.kind # "none" \/ st.pos >= Len(s) \/ lo > hi THEN st
    ELSE IF lo = hi THEN aclStringStep(s, st)
    ELSE LET mid == (lo + hi) \div 2
         IN  aclStringLoop(s, aclStringLoop(s, st, lo, mid), mid + 1, hi)

\* parseACLString(s0)
parseACLString(s0) ==
    LET aclType == <<s0[1]>>
        baseControl == IF aclType = <<"D">> THEN SE_DACL_PRESENT ELSE SE_SACL_PRESENT
        s == From(s0, 2)
        hasFlags == Len(s) > 0 /\ s[1] # "("
        open == Index(s, <<"(">>)
        flagEnd == IF open = -1 THEN Len(s) ELSE open
        aceStart == IF hasFlags THEN flagEnd ELSE 0
        Build(ff, end) ==
            IF ~IsOk(ff) THEN Fail("error parsing flags")
            ELSE IF aceStart = Len(s)
            THEN Ok([AclRevision |-> 2, Sbzl |-> 0, AclSize |-> 8, AceCount |-> 0, Sbz2 |-> 0,
                     AclType |-> aclType, Control |-> aclControl(aclType, baseControl, ff.val),
                     ACEs |-> <<>>])
            ELSE IF end.res.kind # "none" THEN end.res
            ELSE Ok([AclRevision |-> 2, Sbzl |-> 0,
                     AclSize |-> Uint16(8 + Sum([i \in 1..Len(end.aces) |->
                                                    end.aces[i].Header[1].AceSize])),
                     AceCount |-> Uint16(Len(end.aces)),
                     Sbz2 |-> 0,
                     AclType |-> aclType, Control |-> aclControl(aclType, baseControl, ff.val),
                     ACEs |-> end.aces])
    IN  IF Len(s0) = 0 THEN Fail("empty ACL string")
        ELSE IF Len(s0) < 2 \/ s0[2] # ":" THEN Fail("invalid ACL string format")
        ELSE IF aclType \notin {<<"D">>, <<"S">>} THEN Fail("invalid ACL type")
        ELSE IF hasFlags /\ open = -1 /\ Index(s, <<")">>) # -1
        THEN Fail("invalid ACL format: missing opening parenthesis")
        \* every iteration that does not end the call consumes one ")"
        ELSE Build(IF hasFlags THEN parseACLFlags(Slice(s, 0, flagEnd)) ELSE Ok(<<>>),
                   aclStringLoop(s, [pos |-> aceStart, aces |-> <<>>, res |-> Running], 1,
                                 Cardinality({i \in (aceStart + 1)..Len(s) : s[i] = ")"}) + 1))

----------------------------------------------------------------------------
(* The security descriptor codec.  The four offset fields are uint32.       *)

\* the component markers, in the order of pendingComponents
OwnerMarker == <<"O", ":">>
GroupMarker == <<"G", ":">>
DaclMarker == <<"D", ":">>
SaclMarker == <<"S", ":">>
AllComponents == <<OwnerMarker, GroupMarker, DaclMarker, SaclMarker>>

\* a uint32 below the length of a byte slice, as a number
U32ToInt(v) == ((v[1] * 256 + v[2]) * 256 + v[3]) * 256 + v[4]

\* Binary() without the checks of a present bit whose ACL is nil
SecurityDescriptor_Binary_FieldOnly(sdp) ==
    LET offset(component, at) ==
            IF component # <<>> THEN PutUint32LE(U32(at)) ELSE <<0, 0, 0, 0>>
        Layout(sd, control, owner, group, sacl, dacl) ==
            Ok(<<sd.Revision, sd.Sbzl>> \o PutUint16LE(control)
               \o offset(owner, 20)
               \o offset(group, 20 + Len(owner))
               \o offset(sacl, 20 + Len(owner) + Len(group))
               \o offset(dacl, 20 + Len(owner) + Len(group) + Len(sacl))
               \o owner \o group \o sacl \o dacl)
        Build(sd, control, ownerBinary, groupBinary, saclBinary, daclBinary) ==
            IF ~IsOk(ownerBinary) THEN Fail("error converting Owner SID to binary")
            ELSE IF ~IsOk(groupBinary) THEN Fail("error converting Group SID to binary")
            ELSE IF sd.SACL # Nil /\ ~HasBit(control, SE_SACL_PRESENT)
            THEN Fail("SACL present but SE_SACL_PRESENT flag not set")
            ELSE IF ~IsOk(saclBinary) THEN Fail("error converting SACL to binary")
            ELSE IF sd.DACL # Nil /\ ~HasBit(control, SE_DACL_PRESENT)
            THEN Fail("DACL present but SE_DACL_PRESENT flag not set")
            ELSE IF ~IsOk(daclBinary) THEN Fail("error converting DACL to binary")
            ELSE Layout(sd, control, ownerBinary.val, groupBinary.val,
                        saclBinary.val, daclBinary.val)
    IN  IF sdp = Nil THEN Fail("cannot convert nil SecurityDescriptor to binary")
        ELSE Build(sdp[1], SetBit(sdp[1].Control, SE_SELF_RELATIVE),
                   IF sdp[1].OwnerSID # Nil THEN SID_Binary(sdp[1].OwnerSID) ELSE Ok(<<>>),
                   IF sdp[1].GroupSID # Nil THEN SID_Binary(sdp[1].GroupSID) ELSE Ok(<<>>),
                   IF sdp[1].SACL # Nil THEN ACL_Binary(sdp[1].SACL) ELSE Ok(<<>>),
                   IF sdp[1].DACL # Nil THEN ACL_Binary(sdp[1].DACL) ELSE Ok(<<>>))

\* Binary() writing the DACL before the SACL
SecurityDescriptor_Binary_DaclFirst(sdp) ==
    LET offset(component, at) ==
            IF component # <<>> THEN PutUint32LE(U32(at)) ELSE <<0, 0, 0, 0>>
        Layout(sd, control, owner, group, sacl, dacl) ==
            Ok(<<sd.Revision, sd.Sbzl>> \o PutUint16LE(control)
               \o offset(owner, 20)
               \o offset(group, 20 + Len(owner))
               \o offset(sacl, 20 + Len(owner) + Len(group) + Len(dacl))
               \o offset(dacl, 20 + Len(owner) + Len(group))
               \o owner \o group \o dacl \o sacl)
        Build(sd, control, ownerBinary, groupBinary, saclBinary, daclBinary) ==
            IF ~IsOk(ownerBinary) THEN Fail("error converting Owner SID to binary")
            ELSE IF ~IsOk(groupBinary) THEN Fail("error converting Group SID to binary")
            ELSE IF sd.SACL # Nil /\ ~HasBit(control, SE_SACL_PRESENT)
            THEN Fail("SACL present but SE_SACL_PRESENT flag not set")
            ELSE IF sd.SACL = Nil /\ HasBit(control, SE_SACL_PRESENT)
            THEN Fail("SE_SACL_PRESENT flag set but SACL is nil")
            ELSE IF ~IsOk(saclBinary) THEN Fail("error converting SACL to binary")
            ELSE IF sd.DACL # Nil /\ ~HasBit(control, SE_DACL_PRESENT)
            THEN Fail("DACL present but SE_DACL_PRESENT flag not set")
            ELSE IF sd.DACL = Nil /\ HasBit(control, SE_DACL_PRESENT)
            THEN Fail("SE_DACL_PRESENT flag set but DACL is nil")
            ELSE IF ~IsOk(daclBinary) THEN Fail("error converting DACL to binary")
            ELSE Layout(sd, control, ownerBinary.val, groupBinary.val,
                        saclBinary.val, daclBinary.val)
    IN  IF sdp = Nil THEN Fail("cannot convert nil SecurityDescriptor to binary")
        ELSE Build(sdp[1], SetBit(sdp[1].Control, SE_SELF_RELATIVE),
                   IF sdp[1].OwnerSID # Nil THEN SID_Binary(sdp[1].OwnerSID) ELSE Ok(<<>>),
                   IF sdp[1].GroupSID # Nil THEN SID_Binary(sdp[1].GroupSID) ELSE Ok(<<>>),
                   IF sdp[1].SACL # Nil THEN ACL_Binary(sdp[1].SACL) ELSE Ok(<<>>),
                   IF sdp[1].DACL # Nil THEN ACL_Binary(sdp[1].DACL) ELSE Ok(<<>>))

\* (sd *SecurityDescriptor) Binary(): the bytes or the error it returns
SecurityDescriptor_Binary(sdp) ==
    LET offset(component, at) ==
            IF component # <<>> THEN PutUint32LE(U32(at)) ELSE <<0, 0, 0, 0>>
        Layout(sd, control, owner, group, sacl, dacl) ==
            Ok(<<sd.Revision, sd.Sbzl>> \o PutUint16LE(control)
               \o offset(owner, 20)
               \o offset(group, 20 + Len(owner))
               \o offset(sacl, 20 + Len(owner) + Len(group))
               \o offset(dacl, 20 + Len(owner) + Len(group) + Len(sacl))
               \o owner \o group \o sacl \o dacl)
        Build(sd, control, ownerBinary, groupBinary, saclBinary, daclBinary) ==
            IF ~IsOk(ownerBinary) THEN Fail("error converting Owner SID to binary")
            ELSE IF ~IsOk(groupBinary) THEN Fail("error converting Group SID to binary")
            ELSE IF sd.SACL # Nil /\ ~HasBit(control, SE_SACL_PRESENT)
            THEN Fail("SACL present but SE_SACL_PRESENT flag not set")
            ELSE IF sd.SACL = Nil /\ HasBit(control, SE_SACL_PRESENT)
            THEN Fail("SE_SACL_PRESENT flag set but SACL is nil")
            ELSE IF ~IsOk(saclBinary) THEN Fail("error converting SACL to binary")
            ELSE IF sd.DACL # Nil /\ ~HasBit(control, SE_DACL_PRESENT)
            THEN Fail("DACL present but SE_DACL_PRESENT flag not set")
            ELSE IF sd.DACL = Nil /\ HasBit(control, SE_DACL_PRESENT)
            THEN Fail("SE_DACL_PRESENT flag set but DACL is nil")
            ELSE IF ~IsOk(daclBinary) THEN Fail("error converting DACL to binary")
            ELSE Layout(sd, control, ownerBinary.val, groupBinary.val,
                        saclBinary.val, daclBinary.val)
    IN  IF sdp = Nil THEN Fail("cannot convert nil SecurityDescriptor to binary")
        ELSE Build(sdp[1], SetBit(sdp[1].Control, SE_SELF_RELATIVE),
                   IF sdp[1].OwnerSID # Nil THEN SID_Binary(sdp[1].OwnerSID) ELSE Ok(<<>>),
                   IF sdp[1].GroupSID # Nil THEN SID_Binary(sdp[1].GroupSID) ELSE Ok(<<>>),
                   IF sdp[1].SACL # Nil THEN ACL_Binary(sdp[1].SACL) ELSE Ok(<<>>),
                   IF sdp[1].DACL # Nil THEN ACL_Binary(sdp[1].DACL) ELSE Ok(<<>>))

\* the receiver if Binary() assigned the bit where it sets it
afterBinary_Assigned(sd) == [sd EXCEPT !.Control = SE_SELF_RELATIVE]

\* the receiver after Binary(): sd.Control |= SE_SELF_RELATIVE comes before
\* every check but the nil check
afterBinary(sd) == [sd EXCEPT !.Control = SetBit(@, SE_SELF_RELATIVE)]

\* (sd *SecurityDescriptor) String(): sd is dereferenced without a nil check
SecurityDescriptor_String(sdp) ==
    LET Build(sd, ownerSIDString, groupSIDString, daclStr, saclStr) ==
            IF ~IsOk(ownerSIDString) THEN ownerSIDString
            ELSE IF ~IsOk(groupSIDString) THEN groupSIDString
            ELSE IF ~IsOk(daclStr) THEN daclStr
            ELSE IF ~IsOk(saclStr) THEN saclStr
            ELSE Ok((IF sd.OwnerSID # Nil THEN OwnerMarker \o ownerSIDString.val ELSE <<>>)
                    \o (IF sd.GroupSID # Nil THEN GroupMarker \o groupSIDString.val ELSE <<>>)
                    \o daclStr.val \o saclStr.val)
    IN  IF sdp = Nil THEN Panic("nil pointer dereference")
        ELSE Build(sdp[1],
                   IF sdp[1].OwnerSID # Nil THEN SID_String(sdp[1].OwnerSID) ELSE Ok(<<>>),
                   IF sdp[1].GroupSID # Nil THEN SID_String(sdp[1].GroupSID) ELSE Ok(<<>>),
                   IF sdp[1].DACL # Nil THEN ACL_String(sdp[1].DACL) ELSE Ok(<<>>),
                   IF sdp[1].SACL # Nil THEN ACL_String(sdp[1].SACL) ELSE Ok(<<>>))

\* ownerOffset > 0 && ownerOffset >= dataLen
\* offsetExceeds, accepting an offset equal to the length
offsetExceeds_Beyond(offset, dataLen) == ~IsZero(offset) /\ Less32(U32(dataLen), offset)

offsetExceeds(offset, dataLen) == ~IsZero(offset) /\ ~Less32(offset, U32(dataLen))

\* ParseSecurityDescriptorBinary, keeping an ACL only when its present bit is set
ParseSecurityDescriptorBinary_ByControl(data) ==
    LET absent == Ok(<<>>)
        ptr(offset, r) == IF IsZero(offset) THEN Nil ELSE Some(r.val)
        control == Uint16LE(data, 2)
        ownerOffset == Uint32LE(data, 4)
        groupOffset == Uint32LE(data, 8)
        saclOffset == Uint32LE(data, 12)
        daclOffset == Uint32LE(data, 16)
        Build(owner, group, dacl, sacl) ==
            IF ~IsOk(owner) THEN Fail("error parsing owner SID")
            ELSE IF ~IsOk(group) THEN Fail("error parsing group SID")
            ELSE IF dacl.kind = "err" THEN Fail("error parsing DACL")
            ELSE IF ~IsOk(dacl) THEN dacl
            ELSE IF sacl.kind = "err" THEN Fail("error parsing SACL")
            ELSE IF ~IsOk(sacl) THEN sacl
            ELSE Ok([Revision |-> At(data, 0), Sbzl |-> At(data, 1), Control |-> control,
                     OwnerOffset |-> ownerOffset, GroupOffset |-> groupOffset,
                     SaclOffset |-> saclOffset, DaclOffset |-> daclOffset,
                     OwnerSID |-> ptr(ownerOffset, owner),
                     GroupSID |-> ptr(groupOffset, group),
                     DACL |-> IF HasBit(control, SE_DACL_PRESENT)
                              THEN ptr(daclOffset, dacl) ELSE Nil,
                     SACL |-> IF HasBit(control, SE_SACL_PRESENT)
                              THEN ptr(saclOffset, sacl) ELSE Nil])
    IN  IF Len(data) < 20
        THEN Fail("invalid security descriptor: it must be 20 bytes length at minimum")
        ELSE IF offsetExceeds(ownerOffset, Len(data))
        THEN Fail("invalid security descriptor: Owner offset exceeds data length")
        ELSE IF offsetExceeds(groupOffset, Len(data))
        THEN Fail("invalid security descriptor: Group offset exceeds data length")
        ELSE IF offsetExceeds(saclOffset, Len(data))
        THEN Fail("invalid security descriptor: SACL offset exceeds data length")
        ELSE IF offsetExceeds(daclOffset, Len(data))
        THEN Fail("invalid security descriptor: DACL offset exceeds data length")
        ELSE Build(IF ~IsZero(ownerOffset) THEN parseSIDBinary(data, U32ToInt(ownerOffset))
                   ELSE absent,
                   IF ~IsZero(groupOffset) THEN parseSIDBinary(data, U32ToInt(groupOffset))
                   ELSE absent,
                   IF ~IsZero(daclOffset)
                   THEN parseACLBinary(data, U32ToInt(daclOffset), <<"D">>, control)
                   ELSE absent,
                   IF ~IsZero(saclOffset)
                   THEN parseACLBinary(data, U32ToInt(saclOffset), <<"S">>, control)
                   ELSE absent)

\* ParseSecurityDescriptorBinary(data): the DACL is parsed before the SACL
ParseSecurityDescriptorBinary(data) ==
    LET absent == Ok(<<>>)
        ptr(offset, r) == IF IsZero(offset) THEN Nil ELSE Some(r.val)
        control == Uint16LE(data, 2)
        ownerOffset == Uint32LE(data, 4)
        groupOffset == Uint32LE(data, 8)
        saclOffset == Uint32LE(data, 12)
        daclOffset == Uint32LE(data, 16)
        Build(owner, group, dacl, sacl) ==
            IF ~IsOk(owner) THEN Fail("error parsing owner SID")
            ELSE IF ~IsOk(group) THEN Fail("error parsing group SID")
            ELSE IF dacl.kind = "err" THEN Fail("error parsing DACL")
            ELSE IF ~IsOk(dacl) THEN dacl
            ELSE IF sacl.kind = "err" THEN Fail("error parsing SACL")
            ELSE IF ~IsOk(sacl) THEN sacl
            ELSE Ok([Revision |-> At(data, 0), Sbzl |-> At(data, 1), Control |-> control,
                     OwnerOffset |-> ownerOffset, GroupOffset |-> groupOffset,
                     SaclOffset |-> saclOffset, DaclOffset |-> daclOffset,
                     OwnerSID |-> ptr(ownerOffset, owner),
                     GroupSID |-> ptr(groupOffset, group),
                     DACL |-> ptr(daclOffset, dacl),
                     SACL |-> ptr(saclOffset, sacl)])
    IN  IF Len(data) < 20
        THEN Fail("invalid security descriptor: it must be 20 bytes length at minimum")
        ELSE IF offsetExceeds(ownerOffset, Len(data))
        THEN Fail("invalid security descriptor: Owner offset exceeds data length")
        ELSE IF offsetExceeds(groupOffset, Len(data))
        THEN Fail("invalid security descriptor: Group offset exceeds data length")
        ELSE IF offsetExceeds(saclOffset, Len(data))
        THEN Fail("invalid security descriptor: SACL offset exceeds data length")
        ELSE IF offsetExceeds(daclOffset, Len(data))
        THEN Fail("invalid security descriptor: DACL offset exceeds data length")
        ELSE Build(IF ~IsZero(ownerOffset) THEN parseSIDBinary(data, U32ToInt(ownerOffset))
                   ELSE absent,
                   IF ~IsZero(groupOffset) THEN parseSIDBinary(data, U32ToInt(groupOffset))
                   ELSE absent,
                   IF ~IsZero(daclOffset)
                   THEN parseACLBinary(data, U32ToInt(daclOffset), <<"D">>, control)
                   ELSE absent,
                   IF ~IsZero(saclOffset)
                   THEN parseACLBinary(data, U32ToInt(saclOffset), <<"S">>, control)
                   ELSE absent)

\* removePendingComponent, removing also what is listed before the component
removePendingComponent_Through(pending, component) ==
    LET at == {i \in 1..Len(pending) : pending[i] = component}
    IN  IF at = {} THEN pending
        ELSE SubSeq(pending, (CHOOSE i \in at : TRUE) + 1, Len(pending))

\* removePendingComponent(component)
removePendingComponent(pending, component) ==
    LET others(c) == c # component
    IN  SelectSeq(pending, others)

\* findNextComponent(s[off:], markers...)
findNextComponent(s, off, markers) ==
    LET Least(found) ==
            IF found = {} THEN -1 ELSE CHOOSE idx \in found : \A other \in found : idx <= other
    IN  Least({IndexAt(s, off, markers[k]) : k \in 1..Len(markers)} \ {-1})

\* parseSIDComponent(s[off:], nextMarkers...): the SID and where remaining
\* starts in s
parseSIDComponent(s, off, nextMarkers) ==
    LET idx == findNextComponent(s, off, nextMarkers)
        sidEnd == IF idx = -1 THEN Len(s) - off ELSE idx
        Parsed(sid) ==
            IF ~IsOk(sid) THEN [res |-> Fail("invalid SID"), remaining |-> Len(s)]
            ELSE [res |-> sid, remaining |-> off + sidEnd]
    IN  Parsed(parseSIDString(Slice(s, off, off + sidEnd)))

\* parseACLComponent(s[off:], nextMarkers...)
parseACLComponent(s, off, nextMarkers) ==
    LET idx == IF Len(nextMarkers) > 0 THEN findNextComponent(s, off, nextMarkers) ELSE -1
        aclEnd == IF idx = -1 THEN Len(s) - off ELSE idx
        Parsed(acl) ==
            IF ~IsOk(acl) THEN [res |-> Fail("invalid ACL"), remaining |-> Len(s)]
            ELSE [res |-> acl, remaining |-> off + aclEnd]
    IN  Parsed(parseACLString(Slice(s, off, off + aclEnd)))

\* strings.HasPrefix(s[off:], p)
HasPrefixAt(s, off, p) == off + Len(p) <= Len(s) /\ MatchAt(s, p, off + 1)

\* if aclControl&flag != 0 { control |= flag }
\* copyBit, setting the flag whatever the ACL carries
copyBit_Always(control, aclCtl, flag) == SetBit(control, flag)

copyBit(control, aclCtl, flag) == IF HasBit(aclCtl, flag) THEN SetBit(control, flag) ELSE control

\* one iteration of the component loop of ParseSecurityDescriptorString; st
\* holds the descriptor under construction, the position in s where remaining
\* starts, the pending components and the outcome once the call has ended.
\* When no case of the switch matches, nothing changes.
sdStringStep(s, st) ==
    LET Owner(pending, r) ==
            IF ~IsOk(r.res) THEN [st EXCEPT !.res = Fail("error parsing owner SID")]
            ELSE [st EXCEPT !.OwnerSID = Some(r.res.val), !.remaining = r.remaining,
                            !.pendingComponents = pending,
                            !.Control = FlipBit(@, SE_OWNER_DEFAULTED)]
        Group(pending, r) ==
            IF ~IsOk(r.res) THEN [st EXCEPT !.res = Fail("error parsing group SID")]
            ELSE [st EXCEPT !.GroupSID = Some(r.res.val), !.remaining = r.remaining,
                            !.pendingComponents = pending,
                            !.Control = FlipBit(@, SE_GROUP_DEFAULTED)]
        Dacl(pending, r) ==
            IF ~IsOk(r.res) THEN [st EXCEPT !.res = Fail("error parsing DACL")]
            ELSE [st EXCEPT !.DACL = Some(r.res.val), !.remaining = r.remaining,
                            !.pendingComponents = pending,
                            !.Control =
                                copyBit(copyBit(copyBit(
                                    SetBit(FlipBit(@, SE_DACL_DEFAULTED), SE_DACL_PRESENT),
                                    r.res.val.Control, SE_DACL_PROTECTED),
                                    r.res.val.Control, SE_DACL_AUTO_INHERITED),
                                    r.res.val.Control, SE_DACL_AUTO_INHERIT_RE)]
        Sacl(pending, r) ==
            IF ~IsOk(r.res) THEN [st EXCEPT !.res = Fail("error parsing SACL")]
            ELSE [st EXCEPT !.SACL = Some(r.res.val), !.remaining = r.remaining,
                            !.pendingComponents = pending,
                            !.Control =
                                copyBit(copyBit(copyBit(
                                    SetBit(FlipBit(@, SE_SACL_DEFAULTED), SE_SACL_PRESENT),
                                    r.res.val.Control, SE_SACL_PROTECTED),
                                    r.res.val.Control, SE_SACL_AUTO_INHERITED),
                                    r.res.val.Control, SE_SACL_AUTO_INHERIT_RE)]
    IN  IF HasPrefixAt(s, st.remaining, OwnerMarker)
        THEN Owner(removePendingComponent(st.pendingComponents, OwnerMarker),
                   parseSIDComponent(s, st.remaining + 2,
                                     removePendingComponent(st.pendingComponents, OwnerMarker)))
        ELSE IF HasPrefixAt(s, st.remaining, GroupMarker)
        THEN Group(removePendingComponent(st.pendingComponents, GroupMarker),
                   parseSIDComponent(s, st.remaining + 2,
                                     removePendingComponent(st.pendingComponents, GroupMarker)))
        ELSE IF HasPrefixAt(s, st.remaining, DaclMarker)
        THEN Dacl(removePendingComponent(st.pendingComponents, DaclMarker),
                  parseACLComponent(s, st.remaining,
                                    removePendingComponent(st.pendingComponents, DaclMarker)))
        ELSE IF HasPrefixAt(s, st.remaining, SaclMarker)
        THEN Sacl(removePendingComponent(st.pendingComponents, SaclMarker),
                  parseACLComponent(s, st.remaining,
                                    removePendingComponent(st.pendingComponents, SaclMarker)))
        ELSE st

\* the descriptor ParseSecurityDescriptorString starts from
sdStringStart ==
    [Control |-> SE_SELF_RELATIVE + SE_OWNER_DEFAULTED + SE_GROUP_DEFAULTED
                    + SE_DACL_DEFAULTED + SE_SACL_DEFAULTED,
     OwnerSID |-> Nil, GroupSID |-> Nil, DACL |-> Nil, SACL |-> Nil,
     remaining |-> 0, pendingComponents |-> AllComponents, res |-> Running]

\* len(pendingComponents) > 0 && len(remaining) > 0
sdStringContinues(s, st) == Len(st.pendingComponents) > 0 /\ st.remaining < Len(s)

\* sdStringFinish, leaving each ACL the control its own parse gave it
sdStringFinish_Keep(s, st) ==
    LET mirror(acl) == IF acl = Nil THEN Nil ELSE acl
    IN  IF st.res.kind # "none" THEN st.res
        ELSE IF st.remaining # Len(s) THEN Fail("unexpected content after parsing")
        ELSE Ok([Revision |-> 1, Sbzl |-> 0, Control |-> st.Control,
                 OwnerOffset |-> U32(0), GroupOffset |-> U32(0),
                 SaclOffset |-> U32(0), DaclOffset |-> U32(0),
                 OwnerSID |-> st.OwnerSID, GroupSID |-> st.GroupSID,
                 DACL |-> mirror(st.DACL), SACL |-> mirror(st.SACL)])

\* what the call returns once the loop is over
sdStringFinish(s, st) ==
    LET mirror(acl) == IF acl = Nil THEN Nil ELSE Some([acl[1] EXCEPT !.Control = st.Control])
    IN  IF st.res.kind # "none" THEN st.res
        ELSE IF st.remaining # Len(s) THEN Fail("unexpected content after parsing")
        ELSE Ok([Revision |-> 1, Sbzl |-> 0, Control |-> st.Control,
                 OwnerOffset |-> U32(0), GroupOffset |-> U32(0),
                 SaclOffset |-> U32(0), DaclOffset |-> U32(0),
                 OwnerSID |-> st.OwnerSID, GroupSID |-> st.GroupSID,
                 DACL |-> mirror(st.DACL), SACL |-> mirror(st.SACL)])

\* the loop: an iteration that changes nothing is repeated for ever
RECURSIVE sdStringLoop(_, _)
sdStringLoop(s, st) ==
    LET Then(next) ==
            IF next = st THEN [st EXCEPT !.res = Hang] ELSE sdStringLoop(s, next)
    IN  IF st.res.kind # "none" \/ ~sdStringContinues(s, st) THEN st
        ELSE Then(sdStringStep(s, st))

\* ParseSecurityDescriptorString(s)
ParseSecurityDescriptorString(s) ==
    IF s = <<>> THEN sdStringFinish(s, [sdStringStart EXCEPT !.pendingComponents = <<>>])
    ELSE IF findNextComponent(s, 0, AllComponents) = -1
    THEN Fail("no components found in security descriptor")
    ELSE sdStringFinish(s, sdStringLoop(s, sdStringStart))

----------------------------------------------------------------------------
(* The caller.  A session starts from one value and makes up to MaxCalls    *)
(* codec calls, each on the starting value or on the value the previous     *)
(* call returned.  A value carries the name of its Go type: "sid", "ace",   *)
(* "acl", "sd", "bytes" or "string".                                        *)

MaxCalls == 3

Val(ty, v) == [ty |-> ty, v |-> v]

Last == hist[Len(hist)]
Out == Last.res

\* the values of type ty a call can be made on, with where they come from
Args(ty) ==
    (IF orig.ty = ty THEN {[on |-> "orig", v |-> orig.v]} ELSE {})
        \cup (IF hist # <<>> /\ IsOk(Out) /\ Out.ty = ty
              THEN {[on |-> "out", v |-> Out.val]} ELSE {})

\* the record of a call: its name, what it was made on, and what it returned
\* with the type of the returned value
Called(op, on, ty, r) ==
    [op |-> op, on |-> on,
     res |-> [kind |-> r.kind, val |-> r.val, err |-> r.err, ty |-> ty]]

Do(op, on, ty, r) ==
    /\ Len(hist) < MaxCalls
    /\ hist' = Append(hist, Called(op, on, ty, r))
    /\ UNCHANGED <<orig, loop>>

\* the names and sources of the calls made so far
Trace == [i \in 1..Len(hist) |-> <<hist[i].op, hist[i].on>>]

CallSIDBinary ==
    \E a \in Args("sid") : Do("SID.Binary", a.on, "bytes", SID_Binary(Some(a.v)))

CallSIDString ==
    \E a \in Args("sid") : Do("SID.String", a.on, "string", SID_String(Some(a.v)))

CallParseSIDBinary ==
    \E a \in Args("bytes") : Do("parseSIDBinary", a.on, "sid", parseSIDBinary(a.v, 0))

CallParseSIDString ==
    \E a \in Args("string") : Do("parseSIDString", a.on, "sid", parseSIDString(a.v))

CallACEBinary ==
    \E a \in Args("ace") : Do("ACE.Binary", a.on, "bytes", ACE_Binary(Some(a.v)))

CallACEString ==
    \E a \in Args("ace") : Do("ACE.String", a.on, "string", ACE_String(Some(a.v)))

CallParseACEBinary ==
    \E a \in Args("bytes") : Do("parseACEBinary", a.on, "ace", parseACEBinary(a.v, 0))

CallParseACEString ==
    \E a \in Args("string") : Do("parseACEString", a.on, "ace", parseACEString(a.v))

CallACLBinary ==
    \E a \in Args("acl") : Do("ACL.Binary", a.on, "bytes", ACL_Binary(Some(a.v)))

CallACLString ==
    \E a \in Args("acl") : Do("ACL.String", a.on, "string", ACL_String(Some(a.v)))

\* parseACLBinary is given the ACL type and the control value of the
\* descriptor the ACL is read from
CallParseACLBinary ==
    \E a \in Args("bytes") :
        \E slot \in { [aclType |-> <<"D">>, control |-> SE_SELF_RELATIVE + SE_DACL_PRESENT],
                      [aclType |-> <<"S">>, control |-> SE_SELF_RELATIVE + SE_SACL_PRESENT] } :
            Do("parseACLBinary", a.on, "acl", parseACLBinary(a.v, 0, slot.aclType, slot.control))

CallParseACLString ==
    \E a \in Args("string") : Do("parseACLString", a.on, "acl", parseACLString(a.v))

\* Binary() also sets the self-relative bit of the descriptor it is called on
CallSDBinary ==
    \E a \in Args("sd") :
        /\ Len(hist) < MaxCalls
        /\ IF a.on = "orig"
           THEN /\ orig' = [orig EXCEPT !.v = afterBinary(@)]
                /\ hist' = Append(hist, Called("SecurityDescriptor.Binary", a.on, "bytes",
                                               SecurityDescriptor_Binary(Some(a.v))))
           ELSE /\ orig' = orig
                /\ hist' = Append([hist EXCEPT ![Len(hist)].res.val = afterBinary(@)],
                                  Called("SecurityDescriptor.Binary", a.on, "bytes",
                                         SecurityDescriptor_Binary(Some(a.v))))
        /\ UNCHANGED loop

CallSDString ==
    \E a \in Args("sd") :
        Do("SecurityDescriptor.String", a.on, "string", SecurityDescriptor_String(Some(a.v)))

CallParseSDBinary ==
    \E a \in Args("bytes") :
        Do("ParseSecurityDescriptorBinary", a.on, "sd", ParseSecurityDescriptorBinary(a.v))

CallParseSDString ==
    \E a \in Args("string") :
        Do("ParseSecurityDescriptorString", a.on, "sd", ParseSecurityDescriptorString(a.v))

\* a long byte slice is kept as its first bytes and its length, the
\* bytes after the first being zero, with what the first bytes hold (an ACE
\* or an ACL); Padded is the slice itself
Padded(v) == v.head \o Zeros(v.length - Len(v.head))

\* parseACEBinary and parseACLBinary called on a long slice
CallParseACEBinaryPadded ==
    /\ orig.ty = "padded"
    /\ orig.v.holds = "ace"
    /\ Do("parseACEBinary", "orig", "ace", parseACEBinary(Padded(orig.v), 0))

CallParseACLBinaryPadded ==
    /\ orig.ty = "padded"
    /\ orig.v.holds = "acl"
    /\ \E slot \in { [aclType |-> <<"D">>, control |-> SE_SELF_RELATIVE + SE_DACL_PRESENT],
                     [aclType |-> <<"S">>, control |-> SE_SELF_RELATIVE + SE_SACL_PRESENT] } :
          Do("parseACLBinary", "orig", "acl",
             parseACLBinary(Padded(orig.v), 0, slot.aclType, slot.control))

\* ParseSecurityDescriptorString(orig.v), one loop iteration at a time.  The
\* call begins: it returns at once on an empty string and on a string without
\* a component marker, and enters the loop otherwise.
MaxIterations == 6

ParseStart ==
    /\ loop = NoLoop
    /\ hist = <<>>
    /\ orig.ty = "string"
    /\ IF orig.v = <<>> \/ findNextComponent(orig.v, 0, AllComponents) = -1
       THEN /\ hist' = Append(hist, Called("ParseSecurityDescriptorString", "orig", "sd",
                                           ParseSecurityDescriptorString(orig.v)))
            /\ loop' = [pc |-> "returned"]
       ELSE /\ loop' = [pc |-> "loop", st |-> sdStringStart, iterations |-> 0,
                        consumed |-> TRUE]
            /\ hist' = hist
    /\ UNCHANGED orig

\* one iteration; consumed tells whether it removed a pending component or
\* ended the call
ParseIterate ==
    /\ loop.pc = "loop"
    /\ loop.st.res.kind = "none"
    /\ sdStringContinues(orig.v, loop.st)
    /\ loop.iterations < MaxIterations
    /\ \E next \in {sdStringStep(orig.v, loop.st)} :
          loop' = [pc |-> "loop", st |-> next, iterations |-> loop.iterations + 1,
                   consumed |-> \/ next.res.kind # "none"
                                \/ Len(next.pendingComponents) < Len(loop.st.pendingComponents)]
    /\ UNCHANGED <<orig, hist>>

\* the loop is over: the call returns
ParseReturn ==
    /\ loop.pc = "loop"
    /\ loop.st.res.kind # "none" \/ ~sdStringContinues(orig.v, loop.st)
    /\ hist' = Append(hist, Called("ParseSecurityDescriptorString", "orig", "sd",
                                   sdStringFinish(orig.v, loop.st)))
    /\ loop' = [pc |-> "returned"]
    /\ UNCHANGED orig

\* Calls on one descriptor from MaxThreads goroutines, with no locking.  A
\* call in progress is [op, at, touched, res]: touched holds the accesses it
\* has made to the fields of the shared descriptor.  Accesses of different
\* goroutines are not ordered by anything, so a write and another access to
\* the same field by different goroutines are a data race.
MaxThreads == 2

Threads == 1..MaxThreads

SharedOps == {"SecurityDescriptor.Binary", "SecurityDescriptor.String"}

Access(loc, kind) == [loc |-> loc, kind |-> kind]

\* the fields both methods read: sddl.go 477-517 and 566-591
FieldReads ==
    { Access(loc, "read") : loc \in {"sd.OwnerSID", "sd.GroupSID", "sd.SACL", "sd.DACL"} }

\* goroutine t makes these accesses: do they race with what the others did
Races(t, accesses) ==
    \E u \in Threads \ {t} :
        \E a \in accesses, b \in loop.calls[u].touched :
            a.loc = b.loc /\ "write" \in {a.kind, b.kind}

\* the goroutines are started, each with its call
GoCalls ==
    /\ loop = NoLoop
    /\ hist = <<>>
    /\ orig.ty = "sd"
    /\ \E ops \in [Threads -> SharedOps] :
          loop' = [pc |-> "calls", shared |-> orig.v, raced |-> FALSE,
                   calls |-> [t \in Threads |->
                                 [op |-> ops[t], at |-> "entered", touched |-> {},
                                  res |-> Running]]]
    /\ UNCHANGED <<orig, hist>>

\* Binary(), first part: sd.Control |= SE_SELF_RELATIVE on the shared value
BinaryForceSelfRelative(t) ==
    /\ loop.pc = "calls"
    /\ loop.calls[t].op = "SecurityDescriptor.Binary"
    /\ loop.calls[t].at = "entered"
    /\ \E accesses \in {{Access("sd.Control", "read"), Access("sd.Control", "write")}} :
          loop' = [loop EXCEPT !.shared = afterBinary(@),
                               !.raced = @ \/ Races(t, accesses),
                               !.calls[t].at = "written",
                               !.calls[t].touched = @ \cup accesses]
    /\ UNCHANGED <<orig, hist>>

\* Binary(), the rest: it reads the fields and sd.Control (in the present-bit
\* checks and for the header) and returns.  Every write another goroutine can
\* have made to sd.Control stores the value this goroutine stored itself.
BinaryEncode(t) ==
    /\ loop.pc = "calls"
    /\ loop.calls[t].op = "SecurityDescriptor.Binary"
    /\ loop.calls[t].at = "written"
    /\ \E accesses \in {FieldReads \cup {Access("sd.Control", "read")}},
          res \in {SecurityDescriptor_Binary(Some(loop.shared))} :
          /\ loop' = [loop EXCEPT !.raced = @ \/ Races(t, accesses),
                                  !.calls[t].at = "returned",
                                  !.calls[t].touched = @ \cup accesses,
                                  !.calls[t].res = res]
          /\ hist' = Append(hist, Called("SecurityDescriptor.Binary", "orig", "bytes", res))
    /\ UNCHANGED orig

\* String(): it reads the fields, never sd.Control, and returns
StringEncode(t) ==
    /\ loop.pc = "calls"
    /\ loop.calls[t].op = "SecurityDescriptor.String"
    /\ loop.calls[t].at = "entered"
    /\ \E res \in {SecurityDescriptor_String(Some(loop.shared))} :
          /\ loop' = [loop EXCEPT !.raced = @ \/ Races(t, FieldReads),
                                  !.calls[t].at = "returned",
                                  !.calls[t].touched = @ \cup FieldReads,
                                  !.calls[t].res = res]
          /\ hist' = Append(hist, Called("SecurityDescriptor.String", "orig", "string", res))
    /\ UNCHANGED orig

----------------------------------------------------------------------------
(* The SIDs, encodings and texts the sessions start from *)

\* the largest number of sub-authorities of a generated SID: one more than
\* the format allows
MaxGenSubAuthorities == 16

GenSubAuthorityCounts == {0, 1, 2} \cup (14..MaxGenSubAuthorities)

\* 0, 5, 2^32 - 1, 2^32, 2^48 - 1, 2^48, 2^48 + 5 and 2^64 - 1
GenAuthorities ==
    { U64(0), U64(5),
      <<0, 0, 0, 0, 255, 255, 255, 255>>,
      <<0, 0, 0, 1, 0, 0, 0, 0>>,
      <<0, 0, 255, 255, 255, 255, 255, 255>>,
      <<0, 1, 0, 0, 0, 0, 0, 0>>,
      <<0, 1, 0, 0, 0, 0, 0, 5>>,
      <<255, 255, 255, 255, 255, 255, 255, 255>> }

GenSubAuthorities(n) ==
    { [i \in 1..n |-> U32(20 + i)],
      [i \in 1..n |-> <<255, 255, 255, 255>>],
      [i \in 1..n |-> IF i = 1 THEN U32(32) ELSE U32(543 + i - 1)] }

GenSIDs ==
    { [Revision |-> r, IdentifierAuthority |-> a, SubAuthority |-> subs] :
        r \in {1, 2}, a \in GenAuthorities,
        subs \in UNION { GenSubAuthorities(n) : n \in GenSubAuthorityCounts } }

\* a SID is within the format's bounds
SIDInBounds(s) ==
    /\ Len(s.SubAuthority) <= 15
    /\ s.IdentifierAuthority[1] = 0
    /\ s.IdentifierAuthority[2] = 0

\* the text of a SID with its authority in decimal, or in hexadecimal behind
\* the given prefix
sidText(s, style) ==
    LET authority == IF style = "dec" THEN FormatUint(s.IdentifierAuthority, 10, LowerDigits)
                     ELSE IF style = "hex"
                          THEN <<"0", "x">> \o FormatUint(s.IdentifierAuthority, 16, LowerDigits)
                     ELSE <<"0", "X">> \o FormatUint(s.IdentifierAuthority, 16, UpperDigits)
        subs == [i \in 1..Len(s.SubAuthority) |->
                    <<"-">> \o FormatUint(s.SubAuthority[i], 10, LowerDigits)]
    IN  <<"S", "-">> \o FormatUint(<<s.Revision>>, 10, LowerDigits) \o <<"-">>
            \o authority \o Concat(subs)

\* texts that are not SIDs
BadSIDTexts ==
    { <<>>, <<"S">>, <<"S", "-">>, <<"S", "-", "1">>, <<"S", "-", "1", "-">>,
      <<"S", "-", "1", "-", "5", "-">>, <<"s", "-", "1", "-", "5">>,
      <<"S", "-", "1", "-", "x">>, <<"S", "-", "1", "-", "0", "x">>,
      <<"S", "-", "2", "5", "6", "-", "5">>,
      <<"S", "-", "1", "-", "5", "-", "-", "1">>,
      <<"S", "-", "1", "-", "5", "-", "4", "2", "9", "4", "9", "6", "7", "2", "9", "6">>,
      <<"S", "-", "1", "-", "1", "8", "4", "4", "6", "7", "4", "4", "0", "7", "3", "7",
        "0", "9", "5", "5", "1", "6", "1", "6">>,
      <<"X", "X">>, <<"S", "Y", " ">> }

InBoundsAuthoritySIDs ==
    { g \in GenSIDs : g.IdentifierAuthority[1] = 0 /\ g.IdentifierAuthority[2] = 0 }

SIDStructInputs == { Val("sid", s) @@ [of |-> s] : s \in GenSIDs }

SIDTextInputs ==
    { Val("string", sidText(s, style)) @@ [of |-> s] :
        s \in GenSIDs, style \in {"dec", "hex", "HEX"} }

\* the encoding of a SID, whole or without its last byte
SIDBytesInputs ==
    { Val("bytes", SubSeq(sidBytes(s), 1, Len(sidBytes(s)) - cut)) @@ [of |-> s] :
        s \in InBoundsAuthoritySIDs, cut \in {0, 1} }

BadSIDTextInputs == { Val("string", txt) : txt \in BadSIDTexts }

\* every alias of the table, and every canonical text of the table
AliasInputs ==
    { Val("string", IF form = "alias" THEN wellKnownSids[c] ELSE c)
        @@ [alias |-> wellKnownSids[c], canonical |-> c] :
        c \in DOMAIN wellKnownSids, form \in {"alias", "canonical"} }

InitSID ==
    /\ \/ orig \in SIDStructInputs
       \/ orig \in SIDTextInputs
       \/ orig \in SIDBytesInputs
       \/ orig \in BadSIDTextInputs
       \/ orig \in AliasInputs
    /\ hist = <<>>
    /\ loop = NoLoop

NextSID ==
    \/ CallSIDBinary
    \/ CallSIDString
    \/ CallParseSIDBinary
    \/ CallParseSIDString

SpecSID == InitSID /\ [][NextSID]_vars

----------------------------------------------------------------------------
(* The ACEs, encodings and texts the sessions start from *)

GenACETypes == {0, 1, 2, 3, 5, 17}
GenACEFlags == {0, 3, 4, 27, 64, 128, 192, 195, 255}

\* 0, CC, an unnamed bit, GR, FA, FR, RC|SD|CC and all bits
GenAccessMasks ==
    { U32(0), U32(1), U32(512), <<128, 0, 0, 0>>, <<0, 31, 1, 255>>, <<0, 18, 0, 137>>,
      <<0, 3, 0, 1>>, <<255, 255, 255, 255>> }

\* SY, an account SID, the largest SID, and a SID with too many sub-authorities
GenACESIDs ==
    { [Revision |-> 1, IdentifierAuthority |-> U64(5), SubAuthority |-> <<U32(18)>>],
      [Revision |-> 1, IdentifierAuthority |-> U64(5),
       SubAuthority |-> <<U32(21), U32(1), U32(2), U32(3), U32(500)>>],
      [Revision |-> 1, IdentifierAuthority |-> <<0, 0, 255, 255, 255, 255, 255, 255>>,
       SubAuthority |-> [i \in 1..MaxSubAuthorities |-> <<255, 255, 255, 255>>]],
      [Revision |-> 1, IdentifierAuthority |-> U64(5),
       SubAuthority |-> [i \in 1..(MaxSubAuthorities + 1) |-> U32(i)]] }

MakeACE(type, flags, mask, sid) ==
    [Header |-> Some([AceType |-> type, AceFlags |-> flags, AceSize |-> sizeOfACE(sid)]),
     AccessMask |-> mask,
     SID |-> Some(sid)]

SystemSID == CHOOSE sid \in GenACESIDs : sid.SubAuthority = <<U32(18)>>
FileAll == <<0, 31, 1, 255>>

\* every type with every flags value, and every mask with every SID
GenACEs ==
    { MakeACE(type, flags, FileAll, SystemSID) : type \in GenACETypes, flags \in GenACEFlags }
        \cup { MakeACE(type, flags, mask, sid) :
                 type \in {0, 2}, flags \in {0, 195}, mask \in GenAccessMasks,
                 sid \in GenACESIDs }

\* ACEs with a wrong size, without a header and without a SID
OddACEs ==
    { [MakeACE(0, 0, U32(1), sid) EXCEPT !.Header[1].AceSize = 20] : sid \in GenACESIDs }
        \cup { [MakeACE(0, 0, U32(1), sid) EXCEPT !.Header = Nil] : sid \in GenACESIDs }
        \cup { [MakeACE(type, 0, U32(1), CHOOSE sid \in GenACESIDs : TRUE) EXCEPT !.SID = Nil] :
                 type \in GenACETypes }

\* the fields ACE texts are put together from
GenTypeTexts ==
    { <<"A">>, <<"D">>, <<"A", "U">>, <<"A", "L">>, <<"O", "A">>, <<"0", "x", "0", "2">>,
      <<"0", "x", "2">>, <<"0", "x", "F", "F">>, <<"0", "x", "1", "0", "0">>, <<"X">>, <<>> }

GenFlagTexts ==
    { <<>>, <<"S", "A">>, <<"F", "A">>, <<"S", "A", "F", "A">>, <<"O", "I", "C", "I">>,
      <<"C", "I", "S", "A">>, <<"N", "P">>, <<"I", "O", "I", "D">>, <<"S">>,
      <<"X", "X">>, <<"O", "I", "C">>, <<"s", "a">> }

GenMaskTexts ==
    { <<"F", "A">>, <<"F", "R">>, <<"0", "x", "1", "f", "0", "1", "f", "f">>, <<"C", "C">>,
      <<"G", "A">>, <<>>, <<"0", "x">>, <<"0", "x", "1", "0", "0", "0", "0", "0", "0", "0", "0">> }

GenSIDTexts ==
    { <<"S", "Y">>, <<"B", "A">>, <<"S", "-", "1", "-", "5", "-", "1", "8">>,
      <<"S", "-", "1", "-", "5", "-", "2", "1", "-", "1", "-", "2", "-", "3", "-", "5", "0", "0">>,
      <<"X", "X">>, <<>> }

aceText(type, flags, mask, sid) ==
    <<"(">> \o type \o <<";">> \o flags \o <<";">> \o mask \o <<";", ";", ";">> \o sid \o <<")">>

\* texts that are not ACEs
BadACETexts ==
    { <<>>, <<"(">>, <<"(", ")">>, <<"A", ";", ";", "F", "A", ";", ";", ";", "S", "Y">>,
      <<"(", "A", ";", ";", "F", "A", ";", ";", "S", "Y", ")">>,
      <<"(", "A", ";", ";", "F", "A", ";", ";", ";", ";", "S", "Y", ")">>,
      <<"(", "A", ";", ";", "F", "A", ";", ";", ";", "S", "Y">> }

ACEStructInputs == { Val("ace", e) : e \in GenACEs \cup OddACEs }

\* every type with every flags field, and every mask with every SID
ACETextInputs ==
    { Val("string", aceText(type, flags, <<"F", "A">>, <<"S", "Y">>)) :
        type \in GenTypeTexts, flags \in GenFlagTexts }
        \cup { Val("string", aceText(type, flags, mask, sid)) :
                 type \in {<<"A">>, <<"A", "U">>}, flags \in {<<>>, <<"S", "A">>},
                 mask \in GenMaskTexts, sid \in GenSIDTexts }

BadACETextInputs == { Val("string", txt) : txt \in BadACETexts }

InitACE ==
    /\ \/ orig \in ACEStructInputs
       \/ orig \in ACETextInputs
       \/ orig \in BadACETextInputs
    /\ hist = <<>>
    /\ loop = NoLoop

NextACE ==
    \/ CallACEBinary
    \/ CallACEString
    \/ CallParseACEBinary
    \/ CallParseACEString

SpecACE == InitACE /\ [][NextACE]_vars

----------------------------------------------------------------------------
(* The ACLs, encodings and texts the sessions start from *)

\* the largest number of ACEs of a generated ACL
MaxACEs == 3

WorldSID == [Revision |-> 1, IdentifierAuthority |-> U64(1), SubAuthority |-> <<U32(0)>>]
AccountSID ==
    [Revision |-> 1, IdentifierAuthority |-> U64(5),
     SubAuthority |-> <<U32(21), U32(1), U32(2), U32(3), U32(500)>>]

\* three ACEs of different types and sizes, each with its text
SampleACEs ==
    << [ace |-> MakeACE(0, 0, FileAll, SystemSID),
        text |-> <<"(", "A", ";", ";", "F", "A", ";", ";", ";", "S", "Y", ")">>],
       [ace |-> MakeACE(1, 3, <<0, 18, 0, 137>>, WorldSID),
        text |-> <<"(", "D", ";", "O", "I", "C", "I", ";", "F", "R", ";", ";", ";", "W", "D", ")">>],
       [ace |-> MakeACE(2, 192, U32(512), AccountSID),
        text |-> <<"(", "A", "U", ";", "S", "A", "F", "A", ";", "0", "x", "2", "0", "0", ";", ";", ";", "S", "-", "1", "-", "5", "-", "2", "1", "-", "1", "-", "2", "-", "3", "-", "5", "0", "0", ")">>] >>

\* the lists of up to MaxACEs samples, in every order and with repetitions
RECURSIVE SampleLists(_)
SampleLists(n) ==
    IF n = 0 THEN {<<>>}
    ELSE SampleLists(n - 1)
            \cup { Append(l, k) : l \in { x \in SampleLists(n - 1) : Len(x) = n - 1 },
                                  k \in 1..Len(SampleACEs) }

acesOf(list) == [i \in 1..Len(list) |-> SampleACEs[list[i]].ace]

\* an ACL header followed by the encodings of the ACEs
aclBytes(aclSize, aceCount, aces) ==
    <<2, 0>> \o PutUint16LE(aclSize) \o PutUint16LE(aceCount) \o <<0, 0>>
        \o Concat([i \in 1..Len(aces) |-> ACE_Binary(Some(aces[i])).val])

sizeOfACL(aces) == 8 + Sum([i \in 1..Len(aces) |-> sizeOfACE(aces[i].SID[1])])

MakeACL(aclType, control, aces) ==
    [AclRevision |-> 2, Sbzl |-> 0, AclSize |-> Uint16(sizeOfACL(aces)),
     AceCount |-> Uint16(Len(aces)), Sbz2 |-> 0,
     AclType |-> aclType, Control |-> control, ACEs |-> aces]

GenACLFlagTexts == { <<>>, <<"P">>, <<"A", "I">>, <<"P", "A", "I", "A", "R", "R">>, <<"N", "O", "I", "O">>, <<"X">> }

\* every list as a plain DACL; the short lists with each type and control
ACLStructInputs ==
    { Val("acl", MakeACL(<<"D">>, 4, acesOf(list))) : list \in SampleLists(MaxACEs) }
        \cup { Val("acl", MakeACL(aclType, control, acesOf(list))) :
                 aclType \in {<<"D">>, <<"S">>}, control \in {4, 16, 5132, 10288},
                 list \in SampleLists(1) }

\* ACLs built by hand whose fields do not fit their ACEs: a size of one byte
\* more and of one byte less, a count of one more and of one less, and an
\* ACE whose size field is four more than the ACE takes
OddACLInputs ==
    { Val("acl", [MakeACL(<<"D">>, 4, acesOf(list)) EXCEPT !.AclSize = @ + more]) :
        list \in SampleLists(2), more \in {-1, 1} }
      \cup
    { Val("acl", [MakeACL(<<"D">>, 4, acesOf(list)) EXCEPT !.AceCount = Uint16(@ + more)]) :
        list \in SampleLists(2), more \in {-1, 1} }
      \cup
    { Val("acl", [MakeACL(<<"D">>, 4, acesOf(list))
                    EXCEPT !.ACEs[1].Header[1].AceSize = @ + 4, !.AclSize = @ + 4]) :
        list \in SampleLists(2) \ {<<>>} }

\* well-formed encodings: the header counts every ACE, or one less
ACLBytesInputs ==
    { Val("bytes", aclBytes(sizeOfACL(acesOf(list)), Len(list) - short, acesOf(list)))
        @@ [aces |-> SubSeq(acesOf(list), 1, Len(list) - short)] :
        list \in SampleLists(MaxACEs) \ {<<>>}, short \in {0, 1} }
        \cup { Val("bytes", aclBytes(8, 0, <<>>)) @@ [aces |-> <<>>] }

\* encodings whose header is wrong: a size of 8, one ACE too many, a byte missing
BadACLBytesInputs ==
    { Val("bytes", aclBytes(8, Len(list), acesOf(list))) : list \in SampleLists(MaxACEs) }
        \cup { Val("bytes", aclBytes(sizeOfACL(acesOf(list)), Len(list) + 1, acesOf(list))) :
                 list \in SampleLists(MaxACEs) }
        \cup { Val("bytes", SubSeq(b, 1, Len(b) - 1)) :
                 b \in { aclBytes(sizeOfACL(acesOf(list)), Len(list), acesOf(list)) :
                           list \in SampleLists(MaxACEs) } }

\* the encoding of an ACE with another value in its size field
withAceSize(ace, aceSize) ==
    LET b == ACE_Binary(Some(ace)).val
    IN  SubSeq(b, 1, 2) \o PutUint16LE(aceSize) \o SubSeq(b, 5, Len(b))

\* an ACL header followed by the bytes given
aclRaw(aclSize, aceCount, body) ==
    <<2, 0>> \o PutUint16LE(aclSize) \o PutUint16LE(aceCount) \o <<0, 0>> \o body

SystemACE == SampleACEs[1].ace

\* encodings whose size fields do not fit their content: an ACE that declares
\* four bytes more than it has, followed by four bytes; a header that
\* declares more bytes than are given; an ACE that declares four bytes less
\* than it has; the same followed by a mask and a SID, for which a second
\* ACE begins inside the first; and an ACE that declares no bytes, counted
\* one, two and three times
SlackACLBytesInputs ==
    { Val("bytes", bytes) :
        bytes \in { aclRaw(32, 1, withAceSize(SystemACE, 24) \o Zeros(4)),
                    aclRaw(1000, 0, <<>>),
                    aclRaw(1000, 1, withAceSize(SystemACE, 20)),
                    aclRaw(28, 1, withAceSize(SystemACE, 16)),
                    aclRaw(44, 2, withAceSize(SystemACE, 16)
                                     \o SubSeq(ACE_Binary(Some(SystemACE)).val, 5, 20)) }
                  \cup { aclRaw(28, n, withAceSize(SystemACE, 0)) : n \in 1..MaxACEs } }

aclText(prefix, flags, list) ==
    Val("string", prefix \o flags \o Concat([i \in 1..Len(list) |-> SampleACEs[list[i]].text]))
        @@ [aces |-> acesOf(list)]

\* every list as a DACL without flags and as a SACL with AI; the short lists
\* with each prefix and flags
ACLTextInputs ==
    { aclText(<<"D", ":">>, <<>>, list) : list \in SampleLists(MaxACEs) }
        \cup { aclText(<<"S", ":">>, <<"A", "I">>, list) : list \in SampleLists(MaxACEs) }
        \cup { aclText(prefix, flags, list) :
                 prefix \in {<<"D", ":">>, <<"S", ":">>}, flags \in GenACLFlagTexts,
                 list \in SampleLists(1) }

BadACLTexts ==
    { <<>>, <<"D">>, <<"X", ":">>, <<"D", ";">>, <<"D", ":", "P", ")">>, <<"D", ":", "(", "A", ";", ";", "F", "A", ";", ";", ";", "S", "Y", ")", "x">>, <<"D", ":", "A", "I", "(", "A", ";", ";", "F", "A", ";", ";", ";", "S", "Y">>, <<"D", ":", "(", "A", ";", ";", "F", "A", ";", ";", ";", "S", "Y", ")", "(", "X", ";", ";", "F", "A", ";", ";", ";", "S", "Y", ")">> }

BadACLTextInputs == { Val("string", txt) : txt \in BadACLTexts }

InitACL ==
    /\ \/ orig \in ACLStructInputs
       \/ orig \in ACLBytesInputs
       \/ orig \in BadACLBytesInputs
       \/ orig \in SlackACLBytesInputs
       \/ orig \in ACLTextInputs
       \/ orig \in BadACLTextInputs
    /\ hist = <<>>
    /\ loop = NoLoop

NextACL ==
    \/ CallACLBinary
    \/ CallACLString
    \/ CallParseACLBinary
    \/ CallParseACLString

SpecACL == InitACL /\ [][NextACL]_vars

----------------------------------------------------------------------------
(* The descriptors, encodings and texts the sessions start from *)

AdminsSID ==
    [Revision |-> 1, IdentifierAuthority |-> U64(5), SubAuthority |-> <<U32(32), U32(544)>>]

\* a component of a descriptor: its text, whether the text is what String()
\* writes, and what it stands for (Nil when the component is absent)
Absent == [text |-> <<>>, emit |-> TRUE, ptr |-> Nil]

OwnerOptions ==
    { Absent,
      [text |-> <<"O", ":", "S", "Y">>, emit |-> TRUE, ptr |-> Some(SystemSID)],
      [text |-> <<"O", ":", "S", "-", "1", "-", "5", "-", "2", "1", "-", "1", "-", "2", "-", "3", "-", "5", "0", "0">>, emit |-> TRUE, ptr |-> Some(AccountSID)] }

GroupOptions ==
    { Absent, [text |-> <<"G", ":", "B", "A">>, emit |-> TRUE, ptr |-> Some(AdminsSID)] }

\* for an ACL: the flags its text carries, the control bits they give the
\* descriptor, and its ACEs
DaclOptions ==
    { Absent,
      [text |-> <<"D", ":">>, emit |-> TRUE, ptr |-> Some([bits |-> 0, flags |-> {}, aces |-> <<>>])],
      [text |-> <<"D", ":", "P", "A", "I", "(", "A", ";", ";", "F", "A", ";", ";", ";", "S", "Y", ")", "(", "D", ";", "O", "I", "C", "I", ";", "F", "R", ";", ";", ";", "W", "D", ")">>, emit |-> TRUE,
       ptr |-> Some([bits |-> SE_DACL_PROTECTED + SE_DACL_AUTO_INHERITED,
                     flags |-> {"P", "AI"},
                     aces |-> <<SampleACEs[1].ace, SampleACEs[2].ace>>])],
      [text |-> <<"D", ":", "(", "A", ";", ";", "F", "A", ";", ";", ";", "S", "Y", ")">>, emit |-> TRUE,
       ptr |-> Some([bits |-> 0, flags |-> {}, aces |-> <<SampleACEs[1].ace>>])],
      [text |-> <<"D", ":", "N", "O", "A", "I", "I", "O", "(", "A", ";", ";", "F", "A", ";", ";", ";", "S", "Y", ")">>, emit |-> FALSE,
       ptr |-> Some([bits |-> SE_DACL_AUTO_INHERITED, flags |-> {"NO", "AI", "IO"},
                     aces |-> <<SampleACEs[1].ace>>])],
      [text |-> <<"D", ":", "A", "R", "R", "(", "A", ";", ";", "F", "A", ";", ";", ";", "S", "Y", ")">>, emit |-> TRUE,
       ptr |-> Some([bits |-> SE_DACL_AUTO_INHERIT_RE, flags |-> {"AR", "R"},
                     aces |-> <<SampleACEs[1].ace>>])] }

SaclOptions ==
    { Absent,
      [text |-> <<"S", ":", "A", "R", "(", "A", "U", ";", "S", "A", "F", "A", ";", "0", "x", "0", "0", "0", "0", "0", "2", "0", "0", ";", ";", ";", "S", "-", "1", "-", "5", "-", "2", "1", "-", "1", "-", "2", "-", "3", "-", "5", "0", "0", ")">>, emit |-> TRUE,
       ptr |-> Some([bits |-> SE_SACL_AUTO_INHERIT_RE, flags |-> {"AR"},
                     aces |-> <<SampleACEs[3].ace>>])],
      [text |-> <<"S", ":", "P", "A", "I", "(", "A", "U", ";", "F", "A", ";", "F", "A", ";", ";", ";", "S", "Y", ")">>, emit |-> TRUE,
       ptr |-> Some([bits |-> SE_SACL_PROTECTED + SE_SACL_AUTO_INHERITED, flags |-> {"P", "AI"},
                     aces |-> <<MakeACE(2, FAILED_ACCESS_ACE, FileAll, SystemSID)>>])] }

\* DACLs ACE.String writes with component codes and without the NP flag
OddDaclOptions ==
    { [text |-> <<"D", ":", "(", "A", ";", ";", "C", "C", ";", ";", ";", "S", "Y", ")">>, emit |-> TRUE,
       ptr |-> Some([bits |-> 0, flags |-> {}, aces |-> <<MakeACE(0, 0, U32(1), SystemSID)>>])],
      [text |-> <<"D", ":", "(", "A", ";", ";", "F", "A", ";", ";", ";", "S", "Y", ")">>, emit |-> TRUE,
       ptr |-> Some([bits |-> 0, flags |-> {},
                     aces |-> <<MakeACE(0, NO_PROPAGATE_INHERIT_ACE, FileAll, SystemSID)>>])] }

\* the descriptor with these components, as ParseSecurityDescriptorString
\* describes it: a defaulted bit for each absent component, a present bit and
\* the flag bits for each ACL, and the same control value in each ACL
MakeSD(o, g, d, s) ==
    LET control ==
            SE_SELF_RELATIVE
                + (IF o.ptr = Nil THEN SE_OWNER_DEFAULTED ELSE 0)
                + (IF g.ptr = Nil THEN SE_GROUP_DEFAULTED ELSE 0)
                + (IF d.ptr = Nil THEN SE_DACL_DEFAULTED ELSE SE_DACL_PRESENT + d.ptr[1].bits)
                + (IF s.ptr = Nil THEN SE_SACL_DEFAULTED ELSE SE_SACL_PRESENT + s.ptr[1].bits)
        acl(aclType, c) ==
            IF c.ptr = Nil THEN Nil ELSE Some(MakeACL(aclType, control, c.ptr[1].aces))
    IN  [Revision |-> 1, Sbzl |-> 0, Control |-> control,
         OwnerOffset |-> U32(0), GroupOffset |-> U32(0),
         SaclOffset |-> U32(0), DaclOffset |-> U32(0),
         OwnerSID |-> o.ptr, GroupSID |-> g.ptr,
         DACL |-> acl(<<"D">>, d), SACL |-> acl(<<"S">>, s)]

\* the orders the four components can be written in
Orders == { order \in [1..4 -> 1..4] : \A i, j \in 1..4 : order[i] = order[j] => i = j }

sdText(order, o, g, d, s) ==
    LET piece == <<o.text, g.text, d.text, s.text>>
    IN  piece[order[1]] \o piece[order[2]] \o piece[order[3]] \o piece[order[4]]

\* valid descriptors
SDStructInputs ==
    { Val("sd", MakeSD(o, g, d, s)) @@ [valid |-> TRUE] :
        o \in OwnerOptions, g \in GroupOptions, d \in DaclOptions \cup OddDaclOptions,
        s \in SaclOptions }

\* valid descriptor texts, each with the descriptor it stands for, with its
\* components in the order O G D S and with the components it was put
\* together from; emit tells whether the text is in
\* the form String() writes
SDTextInputs ==
    { Val("string", sdText(order, o, g, d, s))
        @@ [expect |-> MakeSD(o, g, d, s),
            ogds |-> sdText(<<1, 2, 3, 4>>, o, g, d, s),
            parts |-> <<o, g, d, s>>,
            emit |-> /\ o.emit /\ g.emit /\ d.emit /\ s.emit
                     /\ sdText(order, o, g, d, s) = sdText(<<1, 2, 3, 4>>, o, g, d, s)] :
        order \in Orders, o \in OwnerOptions, g \in GroupOptions, d \in DaclOptions,
        s \in SaclOptions }

\* emit-form texts whose DACL carries the R flag
DefaultedTexts == { <<"D", ":", "R">>, <<"D", ":", "R", "(", "A", ";", ";", "F", "A", ";", ";", ";", "S", "Y", ")">>, <<"O", ":", "S", "Y", "G", ":", "B", "A", "D", ":", "P", "A", "I", "A", "R", "R", "(", "A", ";", ";", "F", "A", ";", ";", ";", "S", "Y", ")", "S", ":", "R", "(", "A", "U", ";", "S", "A", "F", "A", ";", "0", "x", "0", "0", "0", "0", "0", "2", "0", "0", ";", ";", ";", "S", "-", "1", "-", "5", "-", "2", "1", "-", "1", "-", "2", "-", "3", "-", "5", "0", "0", ")">> }

DefaultedTextInputs == { Val("string", txt) @@ [emit |-> TRUE] : txt \in DefaultedTexts }

\* texts that are not descriptors: no marker, a marker that is not at the
\* start, a component twice, text after the last component
BadSDTexts ==
    { <<>>, <<"a", "b", "c">>, <<"X", "O", ":", "S", "Y">>, <<" ", "D", ":", "(", "A", ";", ";", "F", "A", ";", ";", ";", "S", "Y", ")">>, <<"O", ":", "S", "Y", "O", ":", "S", "Y">>, <<"O", ":", "S", "Y", "G", ":", "B", "A", "G", ":", "B", "A">>, <<"D", ":", "(", "A", ";", ";", "F", "A", ";", ";", ";", "S", "Y", ")", "x">>, <<"O", ":", "X", "X">>, <<"D", ":", "(", "A", ";", ";", "F", "A", ";", ";", ";", "S", "Y", ")", "D", ":">>, <<"S", "Y", "G", ":", "B", "A">> }

BadSDTextInputs == { Val("string", txt) : txt \in BadSDTexts }

\* texts in which a component kind occurs more than once, and texts with
\* something after the last component
RepeatedKindTexts ==
    { <<"O", ":", "S", "Y", "O", ":", "S", "Y">>,
      <<"O", ":", "S", "Y", "G", ":", "B", "A", "G", ":", "B", "A">>,
      <<"O", ":", "S", "Y", "G", ":", "B", "A", "O", ":", "S", "Y">>,
      <<"D", ":", "D", ":">>,
      <<"D", ":", "(", "A", ";", ";", "F", "A", ";", ";", ";", "S", "Y", ")", "D", ":", "(", "A", ";", ";", "F", "A", ";", ";", ";", "S", "Y", ")">>,
      <<"S", ":", "A", "R", "(", "A", "U", ";", "S", "A", ";", "F", "A", ";", ";", ";", "S", "Y", ")", "D", ":", "(", "A", ";", ";", "F", "A", ";", ";", ";", "S", "Y", ")", "S", ":">>,
      <<"O", ":", "S", "Y", "G", ":", "B", "A", "D", ":", "S", ":", "O", ":", "S", "Y">>,
      <<"G", ":", "B", "A", "D", ":", "(", "A", ";", ";", "F", "A", ";", ";", ";", "S", "Y", ")", "G", ":">>,
      <<"O", ":", "S", "Y", "D", ":", "(", "A", ";", ";", "F", "A", ";", "O", ":", ";", ";", "S", "Y", ")">>,
      <<"X", "O", ":", "S", "Y", "O", ":", "S", "Y">> }

TrailingTexts ==
    { <<"O", ":", "S", "Y", "x">>,
      <<"O", ":", "S", "Y", " ">>,
      <<"G", ":", "B", "A", ";">>,
      <<"D", ":", "(", "A", ";", ";", "F", "A", ";", ";", ";", "S", "Y", ")", "x">>,
      <<"D", ":", "(", "A", ";", ";", "F", "A", ";", ";", ";", "S", "Y", ")", ")">>,
      <<"O", ":", "S", "Y", "G", ":", "B", "A", "D", ":", "(", "A", ";", ";", "F", "A", ";", ";", ";", "S", "Y", ")", "S", ":", "A", "R", "(", "A", "U", ";", "S", "A", ";", "F", "A", ";", ";", ";", "S", "Y", ")", "x">>,
      <<"D", ":", "P", " ">> }

MalformedSDTextInputs ==
    { Val("string", txt) @@ [malformed |-> "repeated"] : txt \in RepeatedKindTexts }
        \cup { Val("string", txt) @@ [malformed |-> "trailing"] : txt \in TrailingTexts }

\* encodings: of the valid descriptors, and with a short header, an offset
\* beyond the data and an offset into the header
sdBytes(sd) == SecurityDescriptor_Binary(Some(sd)).val

SDBytesInputs ==
    { Val("bytes", sdBytes(MakeSD(o, g, d, s))) :
        o \in OwnerOptions, g \in GroupOptions, d \in DaclOptions, s \in SaclOptions }

BadSDBytesInputs ==
    { Val("bytes", bytes) :
        bytes \in { <<>>, Zeros(19), Zeros(20),
                    <<1, 0, 4, 128>> \o <<20, 0, 0, 0>> \o Zeros(12),
                    <<1, 0, 4, 128>> \o Zeros(12) \o <<0, 0, 0, 128>>,
                    <<1, 0, 4, 128>> \o Zeros(12) \o <<4, 0, 0, 0>> \o Zeros(8) } }

\* blobs laid out by hand: the control bits are chosen apart from the
\* components, and the components stand in the blob in any order.  parts
\* holds the encodings of owner, group, SACL and DACL (<<>>: absent), order
\* the order they are written in.
placeOf(parts, order, k) ==
    20 + Sum([i \in 1..4 |->
                IF \E j \in 1..4 : order[j] = k /\ i < j THEN Len(parts[order[i]]) ELSE 0])

blobOffset(parts, order, k) ==
    IF parts[k] = <<>> THEN <<0, 0, 0, 0>> ELSE PutUint32LE(U32(placeOf(parts, order, k)))

sdBlob(control, parts, order) ==
    <<1, 0>> \o PutUint16LE(control)
        \o blobOffset(parts, order, 1) \o blobOffset(parts, order, 2)
        \o blobOffset(parts, order, 3) \o blobOffset(parts, order, 4)
        \o parts[order[1]] \o parts[order[2]] \o parts[order[3]] \o parts[order[4]]

BlobOrders == { <<1, 2, 3, 4>>, <<4, 3, 2, 1>>, <<3, 1, 4, 2>>, <<4, 1, 2, 3>> }

BlobControls ==
    { SE_DACL_PRESENT, SE_SELF_RELATIVE, SE_SELF_RELATIVE + SE_DACL_PRESENT, SE_SELF_RELATIVE + SE_SACL_PRESENT,
      SE_SELF_RELATIVE + SE_DACL_PRESENT + SE_SACL_PRESENT + SE_DACL_PROTECTED }

BlobParts ==
    { <<owner, group, sacl, dacl>> :
        owner \in {<<>>, sidBytes(SystemSID)},
        group \in {<<>>, sidBytes(AdminsSID)},
        sacl \in {<<>>, aclBytes(28, 1, <<MakeACE(2, FAILED_ACCESS_ACE, FileAll, SystemSID)>>)},
        dacl \in {<<>>, aclBytes(8, 0, <<>>), aclBytes(28, 1, <<SampleACEs[1].ace>>)} }

SDBlobInputs ==
    { Val("bytes", sdBlob(control, parts, order)) :
        control \in BlobControls, parts \in BlobParts, order \in BlobOrders }

\* a blob with all four components and one offset field overwritten: with
\* the length of the blob, with more, and with less
withOffset(blob, k, value) ==
    SubSeq(blob, 1, 4 * k) \o PutUint32LE(value) \o SubSeq(blob, 4 * k + 5, Len(blob))

FullBlob ==
    sdBlob(SE_SELF_RELATIVE + SE_DACL_PRESENT + SE_SACL_PRESENT,
           <<sidBytes(SystemSID), sidBytes(AdminsSID),
             aclBytes(28, 1, <<MakeACE(2, FAILED_ACCESS_ACE, FileAll, SystemSID)>>),
             aclBytes(28, 1, <<SampleACEs[1].ace>>)>>,
           <<1, 2, 3, 4>>)

OffsetValues ==
    { U32(Len(FullBlob)), U32(Len(FullBlob) + 1), U32(Len(FullBlob) - 1),
      <<128, 0, 0, 0>>, <<255, 255, 255, 255>>, U32(65536 + 20) }

OffsetBlobInputs ==
    { Val("bytes", withOffset(FullBlob, k, value)) : k \in 1..4, value \in OffsetValues }
        \cup { Val("bytes", withOffset(withOffset(FullBlob, k, value), 4, U32(Len(FullBlob)))) :
                 k \in 1..3, value \in OffsetValues }

\* descriptors whose present bits disagree with their ACL fields: a valid
\* descriptor with the DACL-present bit, the SACL-present bit or both flipped
PresentFlips == {SE_DACL_PRESENT, SE_SACL_PRESENT, SE_DACL_PRESENT + SE_SACL_PRESENT}

MismatchSDInputs ==
    { Val("sd", [MakeSD(o, Absent, d, s) EXCEPT
                    !.Control = IF flip = SE_DACL_PRESENT + SE_SACL_PRESENT
                                THEN FlipBit(FlipBit(@, SE_DACL_PRESENT), SE_SACL_PRESENT)
                                ELSE FlipBit(@, flip)]) :
        flip \in PresentFlips, o \in OwnerOptions, d \in DaclOptions, s \in SaclOptions }

InitSD ==
    /\ \/ orig \in SDStructInputs
       \/ orig \in MismatchSDInputs
       \/ orig \in SDTextInputs
       \/ orig \in DefaultedTextInputs
       \/ orig \in BadSDTextInputs
       \/ orig \in MalformedSDTextInputs
       \/ orig \in SDBytesInputs
       \/ orig \in BadSDBytesInputs
       \/ orig \in SDBlobInputs
       \/ orig \in OffsetBlobInputs
    /\ hist = <<>>
    /\ loop = NoLoop

NextSD ==
    \/ CallSDBinary
    \/ CallSDString
    \/ CallParseSDBinary
    \/ CallParseSDString

SpecSD == InitSD /\ [][NextSD]_vars

\* ParseSecurityDescriptorString followed through its loop
InitLoop ==
    /\ \/ orig \in SDTextInputs
       \/ orig \in DefaultedTextInputs
       \/ orig \in BadSDTextInputs
    /\ hist = <<>>
    /\ loop = NoLoop

NextLoop ==
    \/ ParseStart
    \/ ParseIterate
    \/ ParseReturn

SpecLoop == InitLoop /\ [][NextLoop]_vars

\* descriptors shared by concurrent calls: the valid ones, and the same with
\* the self-relative bit clear, as a caller builds them
PlainSDInputs ==
    { Val("sd", [MakeSD(o, g, d, Absent) EXCEPT !.Control = @ - SE_SELF_RELATIVE]) :
        o \in OwnerOptions, g \in GroupOptions, d \in DaclOptions }

InitShared ==
    /\ \/ orig \in SDStructInputs
       \/ orig \in PlainSDInputs
    /\ hist = <<>>
    /\ loop = NoLoop

NextShared ==
    \/ GoCalls
    \/ \E t \in Threads : BinaryForceSelfRelative(t)
    \/ \E t \in Threads : BinaryEncode(t)
    \/ \E t \in Threads : StringEncode(t)

SpecShared == InitShared /\ [][NextShared]_vars

\* a valid descriptor whose encoding is longer than 65535 bytes: no owner and
\* group, a SACL of BigSaclACEs audit ACEs and a DACL of BigDaclACEs ACEs,
\* each ACE of 72 bytes
BigSaclACEs == 900
BigDaclACEs == 10

BigSID ==
    [Revision |-> 1, IdentifierAuthority |-> U64(5),
     SubAuthority |-> [i \in 1..14 |-> U32(i)]]

BigSD ==
    MakeSD(Absent, Absent,
           [text |-> <<>>, emit |-> FALSE,
            ptr |-> Some([bits |-> 0, flags |-> {},
                          aces |-> [i \in 1..BigDaclACEs |-> MakeACE(0, 0, FileAll, BigSID)]])],
           [text |-> <<>>, emit |-> FALSE,
            ptr |-> Some([bits |-> 0, flags |-> {},
                          aces |-> [i \in 1..BigSaclACEs |->
                                       MakeACE(2, SUCCESSFUL_ACCESS_ACE, FileAll, BigSID)]])])

BigSDInputs == { Val("sd", BigSD) @@ [valid |-> TRUE] }

InitSDBinary ==
    /\ \/ orig \in SDStructInputs
       \/ orig \in BigSDInputs
    /\ hist = <<>>
    /\ loop = NoLoop

NextSDBinary ==
    \/ CallSDBinary
    \/ CallParseSDBinary

SpecSDBinary == InitSDBinary /\ [][NextSDBinary]_vars

\* the text of a DACL of BigACECount ACEs of 76 bytes each
BigACECount == 863

BigACEText == <<"(", "A", ";", ";", "F", "A", ";", ";", ";", "S", "-", "1", "-", "0", "-", "0", "-", "0", "-", "0", "-", "0", "-", "0", "-", "0", "-", "0", "-", "0", "-", "0", "-", "0", "-", "0", "-", "0", "-", "0", "-", "0", "-", "0", ")">>

BigACLText ==
    <<"D", ":">> \o Concat([i \in 1..BigACECount |-> BigACEText])

BigACLTextInputs == { Val("string", BigACLText) }

InitSizes ==
    /\ \/ orig \in ACLTextInputs
       \/ orig \in BigACLTextInputs
       \/ orig \in ACLStructInputs
       \/ orig \in OddACLInputs
       \/ orig \in ACEStructInputs
       \/ orig \in ACETextInputs
    /\ hist = <<>>
    /\ loop = NoLoop

NextSizes ==
    \/ CallParseACLString
    \/ CallACLBinary
    \/ CallParseACEString
    \/ CallACEBinary

SpecSizes == InitSizes /\ [][NextSizes]_vars

\* values the serializers are called on: SIDs, ACEs, ACLs and descriptors,
\* valid ones and ones Binary() rejects (a present bit that disagrees with
\* the DACL field among them), descriptors with the self-relative bit set
\* and clear; a descriptor is kept as it was built next to the value
\* the calls are made on
BuiltSDInputs ==
    { Val("sd", sd) @@ [built |-> sd] :
        sd \in { MakeSD(o, g, d, s) :
                    o \in OwnerOptions, g \in GroupOptions,
                    d \in DaclOptions \cup OddDaclOptions, s \in SaclOptions }
                \cup { [MakeSD(o, g, d, Absent) EXCEPT !.Control = @ - SE_SELF_RELATIVE] :
                    o \in OwnerOptions, g \in GroupOptions,
                    d \in DaclOptions \cup OddDaclOptions }
                \cup { [MakeSD(o, g, d, Absent) EXCEPT
                          !.Control = FlipBit(@ - clear, SE_DACL_PRESENT)] :
                    o \in OwnerOptions, g \in GroupOptions, d \in DaclOptions,
                    clear \in {0, SE_SELF_RELATIVE} } }

InitSerialize ==
    /\ \/ orig \in SIDStructInputs
       \/ orig \in ACEStructInputs
       \/ orig \in ACLStructInputs
       \/ orig \in OddACLInputs
       \/ orig \in BuiltSDInputs
    /\ hist = <<>>
    /\ loop = NoLoop

NextSerialize ==
    \/ CallSIDBinary
    \/ CallSIDString
    \/ CallACEBinary
    \/ CallACEString
    \/ CallACLBinary
    \/ CallACLString
    \/ CallSDBinary
    \/ CallSDString
    \/ CallParseSDBinary

SpecSerialize == InitSerialize /\ [][NextSerialize]_vars

\* descriptor texts at the edges of what the string parser accepts: the
\* largest authority and the first too large, no sub-authorities, fifteen
\* and sixteen, the largest sub-authority and the first too large, an audit
\* ACE without audit flags in a DACL, an allow ACE in a SACL, ACLs without
\* ACEs, a component prefix inside an ACE
EdgeSDTexts ==
    { <<"O", ":", "S", "-", "1", "-", "0", "x", "F", "F", "F", "F", "F", "F", "F", "F", "F", "F", "F", "F">>,
      <<"O", ":", "S", "-", "1", "-", "0", "x", "1", "0", "0", "0", "0", "0", "0", "0", "0", "0", "0", "0", "0">>,
      <<"O", ":", "S", "-", "1", "-", "5">>,
      <<"G", ":", "S", "-", "1", "-", "5", "-", "1", "-", "2", "-", "3", "-", "4", "-", "5", "-", "6", "-", "7", "-", "8", "-", "9", "-", "1", "0", "-", "1", "1", "-", "1", "2", "-", "1", "3", "-", "1", "4", "-", "1", "5">>,
      <<"G", ":", "S", "-", "1", "-", "5", "-", "1", "-", "2", "-", "3", "-", "4", "-", "5", "-", "6", "-", "7", "-", "8", "-", "9", "-", "1", "0", "-", "1", "1", "-", "1", "2", "-", "1", "3", "-", "1", "4", "-", "1", "5", "-", "1", "6">>,
      <<"O", ":", "S", "-", "2", "-", "5", "-", "1", "8">>,
      <<"D", ":", "(", "A", "U", ";", ";", "F", "A", ";", ";", ";", "S", "Y", ")">>,
      <<"S", ":">>,
      <<"S", ":", "N", "O">>,
      <<"S", ":", "(", "A", ";", ";", "F", "A", ";", ";", ";", "S", "Y", ")">>,
      <<"O", ":", "S", "Y", "D", ":", "(", "A", ";", ";", "F", "A", ";", "O", ":", ";", ";", "S", "Y", ")">>,
      <<"D", ":", "(", "A", ";", ";", "F", "A", ";", ";", ";", "S", "-", "1", "-", "0", "-", "1", "-", "2", "-", "3", "-", "4", "-", "5", "-", "6", "-", "7", "-", "8", "-", "9", "-", "1", "0", "-", "1", "1", "-", "1", "2", "-", "1", "3", "-", "1", "4", "-", "1", "5", ")", "(", "D", ";", ";", "0", "x", "1", ";", ";", ";", "S", "-", "1", "-", "5", ")", "S", ":", "A", "I", "(", "A", "U", ";", "S", "A", ";", "F", "A", ";", ";", ";", "W", "D", ")">>,
      <<"D", ":", "(", "A", ";", ";", "C", "C", ";", ";", ";", "S", "Y", ")">>,
      <<"D", ":", "P", "(", "A", ";", "N", "P", ";", "0", "x", "F", "F", "F", "F", "F", "F", "F", "F", ";", ";", ";", "B", "A", ")", "G", ":", "S", "-", "1", "-", "5", "-", "4", "2", "9", "4", "9", "6", "7", "2", "9", "5">>,
      <<"G", ":", "S", "-", "1", "-", "5", "-", "4", "2", "9", "4", "9", "6", "7", "2", "9", "6">> }

\* descriptor texts parsed and the descriptors converted to binary; the last
\* text is a DACL whose ACEs total more than 65535 bytes
InitText ==
    /\ \/ orig \in SDTextInputs
       \/ orig \in DefaultedTextInputs
       \/ orig \in BadSDTextInputs
       \/ orig \in MalformedSDTextInputs
       \/ orig \in { Val("string", txt) : txt \in EdgeSDTexts }
       \/ orig \in BigACLTextInputs
    /\ hist = <<>>
    /\ loop = NoLoop

NextText ==
    \/ CallParseSDString
    \/ CallSDBinary

SpecText == InitText /\ [][NextText]_vars

\* ACL texts with a run of flag codes: every run of up to MaxFlagCodes of
\* the six codes, and runs that are none, before no ACE and before one ACE
MaxFlagCodes == 3

FlagCodes == { <<"P">>, <<"R">>, <<"A", "I">>, <<"A", "R">>, <<"N", "O">>, <<"I", "O">> }

RECURSIVE CodeRuns(_)
CodeRuns(n) ==
    IF n = 0 THEN {<<>>}
    ELSE CodeRuns(n - 1)
            \cup { Append(run, code) : run \in { r \in CodeRuns(n - 1) : Len(r) = n - 1 },
                                       code \in FlagCodes }

OtherRuns ==
    { <<"X">>, <<"A">>, <<"I">>, <<"N">>, <<"O">>, <<"p">>, <<"a", "i">>, <<"P", "A">>,
      <<"A", "I", "O">>, <<"N", "P">>, <<"P", " ">>, <<"P", "A", "I", "X">>, <<"O", "I">>,
      <<"N", "O", "I">>, <<"R", "A">>, <<"S", "R">>, <<"P", ";">> }

FlaggedACLInputs ==
    { Val("string", prefix \o Concat(run) \o rest)
        @@ [prefix |-> prefix, run |-> Concat(run), codes |-> run, rest |-> rest] :
        prefix \in {<<"D", ":">>, <<"S", ":">>}, run \in CodeRuns(MaxFlagCodes),
        rest \in {<<>>, SampleACEs[1].text} }
      \cup
    { Val("string", prefix \o run \o rest)
        @@ [prefix |-> prefix, run |-> run, rest |-> rest] :
        prefix \in {<<"D", ":">>, <<"S", ":">>}, run \in OtherRuns,
        rest \in {<<>>, SampleACEs[1].text} }

InitFlags ==
    /\ orig \in FlaggedACLInputs
    /\ hist = <<>>
    /\ loop = NoLoop

NextFlags ==
    \/ CallParseACLString
    \/ CallACLString

SpecFlags == InitFlags /\ [][NextFlags]_vars

\* parseACEBinary and parseACLBinary on long slices
\* the first bytes of the long slices that hold ACLs: ACLs of one and two
\* ACEs; one whose first ACE declares 24 bytes and is followed by four
\* bytes and a second ACE; one whose second ACE begins at its AclSize; one
\* whose third ACE declares 65492 bytes, so that the declared sizes add up
\* to 65536; and one whose ACE declares no bytes
PaddedACLHeads ==
    { aclRaw(28, 1, withAceSize(SystemACE, 20)),
      aclRaw(48, 2, withAceSize(SystemACE, 20) \o withAceSize(SystemACE, 20)),
      aclRaw(52, 2, withAceSize(SystemACE, 24) \o Zeros(4) \o withAceSize(SystemACE, 20)),
      aclRaw(28, 2, withAceSize(SystemACE, 20) \o withAceSize(SystemACE, 20)),
      aclRaw(65535, 4, withAceSize(SystemACE, 20) \o withAceSize(SystemACE, 24) \o Zeros(4)
                          \o withAceSize(SystemACE, 65492)),
      aclRaw(28, 3, withAceSize(SystemACE, 0)) }

\* and of those that hold ACEs, which declare 20, 16, 24 and 65535 bytes,
\* and the first 15 bytes of an ACE
PaddedACEHeads ==
    { withAceSize(SystemACE, aceSize) : aceSize \in {20, 16, 24, 65535} }
        \cup { SubSeq(withAceSize(SystemACE, 20), 1, 15) }

\* their lengths: the first bytes alone and with a few bytes more, both
\* also with 65536 bytes more, and lengths around 65536
PaddedLengths(head) ==
    { Len(head) + more : more \in {0, 4, 65536, 65540} }
        \cup { 65536 + more : more \in {-1, 0, 8, 15, 16} }

PaddedInputs ==
    { Val("padded", [holds |-> "acl", head |-> head, length |-> length]) :
        head \in PaddedACLHeads, length \in UNION { PaddedLengths(h) : h \in PaddedACLHeads } }
      \cup
    { Val("padded", [holds |-> "ace", head |-> head, length |-> length]) :
        head \in PaddedACEHeads, length \in UNION { PaddedLengths(h) : h \in PaddedACEHeads } }

InitPadded ==
    /\ orig \in { p \in PaddedInputs : p.v.length >= Len(p.v.head) }
    /\ hist = <<>>
    /\ loop = NoLoop

NextPadded ==
    \/ CallParseACEBinaryPadded
    \/ CallParseACLBinaryPadded

SpecPadded == InitPadded /\ [][NextPadded]_vars

----------------------------------------------------------------------------
(* The command line front end (cmd/sddl): the flags are read, then one    *)
(* line of the input at a time is converted and printed.  A run is a value *)
(* of type "cli": the flag values, the lines the scanner delivers and       *)
(* whether the scanner stops on a read error rather than at the end of the  *)
(* input.  The steps keep the position of the process in loop.              *)

\* encoding/base64, StdEncoding: the alphabet, and '=' padding to a multiple
\* of four characters
encodeStd ==
    <<"A", "B", "C", "D", "E", "F", "G", "H", "I", "J", "K", "L", "M", "N", "O", "P",
      "Q", "R", "S", "T", "U", "V", "W", "X", "Y", "Z", "a", "b", "c", "d", "e", "f",
      "g", "h", "i", "j", "k", "l", "m", "n", "o", "p", "q", "r", "s", "t", "u", "v",
      "w", "x", "y", "z", "0", "1", "2", "3", "4", "5", "6", "7", "8", "9", "+", "/">>

b64Value(c) ==
    IF \E i \in 1..64 : encodeStd[i] = c
    THEN (CHOOSE i \in 1..64 : encodeStd[i] = c) - 1
    ELSE -1

\* EncodeToString: three bytes make four characters
EncodeToString(src) ==
    LET n == Len(src)
        at(i) == IF i <= n THEN src[i] ELSE 0
        quad(g) ==
            LET b0 == at(3 * g - 2)
                b1 == at(3 * g - 1)
                b2 == at(3 * g)
            IN  << encodeStd[(b0 \div 4) + 1],
                   encodeStd[(b0 % 4) * 16 + (b1 \div 16) + 1],
                   IF 3 * g - 1 <= n THEN encodeStd[(b1 % 16) * 4 + (b2 \div 64) + 1] ELSE "=",
                   IF 3 * g <= n THEN encodeStd[(b2 % 64) + 1] ELSE "=" >>
    IN  Concat([g \in 1..((n + 2) \div 3) |-> quad(g)])

\* DecodeString: four characters make three bytes; a character outside the
\* alphabet, a length that is not a multiple of four and padding anywhere
\* but at the end are errors
DecodeString(s) ==
    LET n == Len(s)
        pad == IF n >= 2 /\ s[n] = "=" /\ s[n - 1] = "=" THEN 2
               ELSE IF n >= 1 /\ s[n] = "=" THEN 1
               ELSE 0
        v(i) == IF i <= n - pad THEN b64Value(s[i]) ELSE 0
        triple(g) ==
            << v(4 * g - 3) * 4 + (v(4 * g - 2) \div 16),
               (v(4 * g - 2) % 16) * 16 + (v(4 * g - 1) \div 4),
               (v(4 * g - 1) % 4) * 64 + v(4 * g) >>
    IN  IF n % 4 # 0 \/ \E i \in 1..(n - pad) : b64Value(s[i]) < 0
        THEN Fail("illegal base64 data")
        ELSE Ok(SubSeq(Concat([g \in 1..(n \div 4) |-> triple(g)]),
                       1, 3 * (n \div 4) - pad))

\* strings.TrimSpace(input) == ""
IsBlank(input) == \A i \in 1..Len(input) : input[i] \in {" ", "\t"}

FormatBinary == <<"b", "i", "n", "a", "r", "y">>
FormatString == <<"s", "t", "r", "i", "n", "g">>

\* one line written to a stream; line is the number of the input line it
\* is about, 0 for a message that is about no line
Written(line, text) == [line |-> line, text |-> text]

\* parseFlags: the values of -i and -o are lowered and checked, and an
\* invalid one ends the process with status 1 before any input is read;
\* exit is the exit status, -1 while the process has not exited
parseFlags ==
    /\ orig.ty = "cli"
    /\ loop = NoLoop
    /\ LET inputFormat == ToLower(orig.v.i)
           outputFormat == ToLower(orig.v.o)
           cfg == [inputFormat |-> inputFormat, outputFormat |-> outputFormat,
                   fileMode |-> orig.v.file, debug |-> orig.v.debug]
           begun == [pc |-> "cli", at |-> "scan", cfg |-> cfg, lineNum |-> 0,
                     stdout |-> <<>>, stderr |-> <<>>, exit |-> -1]
       IN  IF inputFormat \notin {FormatBinary, FormatString}
           THEN loop' = [begun EXCEPT !.at = "exited", !.exit = 1,
                                      !.stderr = <<Written(0, "invalid input format")>>]
           ELSE IF outputFormat \notin {FormatBinary, FormatString}
           THEN loop' = [begun EXCEPT !.at = "exited", !.exit = 1,
                                      !.stderr = <<Written(0, "invalid output format")>>]
           ELSE IF cfg.fileMode /\ inputFormat # FormatBinary
           THEN loop' = [begun EXCEPT
                            !.stderr = <<Written(0, "warning: input format is ignored in file mode")>>]
           ELSE loop' = begun
    /\ UNCHANGED <<orig, hist>>

\* the descriptor of a line: the line is decoded and parsed as the input
\* format says (sddl.FromBinary and sddl.FromString are the two descriptor
\* parsers); diag is the diagnostic of a failure
parseLine(cfg, input) ==
    IF cfg.inputFormat = FormatBinary
    THEN LET data == DecodeString(input)
         IN  IF ~IsOk(data) THEN [res |-> data, diag |-> "error decoding base64"]
             ELSE [res |-> ParseSecurityDescriptorBinary(data.val),
                   diag |-> "error parsing security descriptor"]
    ELSE [res |-> ParseSecurityDescriptorString(input),
          diag |-> "error parsing security descriptor string"]

\* the text printed for a descriptor, as the output format says; a
\* serializer that returns an error leaves a diagnostic (convertLine), and
\* the indented form of -debug is left out
formatLine(cfg, sd) ==
    IF cfg.outputFormat = FormatBinary
    THEN LET data == SecurityDescriptor_Binary(Some(sd))
         IN  IF IsOk(data) THEN Ok(EncodeToString(data.val)) ELSE data
    ELSE SecurityDescriptor_String(Some(sd))

\* what one line comes to: nothing for a blank line, a line of output, a
\* diagnostic, or a call that panics or never returns
convertLine(cfg, input) ==
    IF IsBlank(input) THEN [to |-> "skip", text |-> ""]
    ELSE LET parsed == parseLine(cfg, input)
             out == formatLine(cfg, parsed.res.val)
         IN  IF parsed.res.kind = "err" THEN [to |-> "stderr", text |-> parsed.diag]
             ELSE IF parsed.res.kind # "ok" THEN [to |-> parsed.res.kind, text |-> parsed.res.err]
             ELSE IF out.kind = "ok" THEN [to |-> "stdout", text |-> out.val]
             ELSE IF out.kind = "err" THEN [to |-> "stderr", text |-> "error formatting security descriptor"]
             ELSE [to |-> out.kind, text |-> out.err]

\* the state after the line numbered n came to c
afterLine(st, n, c) ==
    LET counted == [st EXCEPT !.lineNum = n]
    IN  CASE c.to = "skip" -> counted
          [] c.to = "stdout" -> [counted EXCEPT !.stdout = Append(@, Written(n, c.text))]
          [] c.to = "stderr" -> [counted EXCEPT !.stderr = Append(@, Written(n, c.text))]
          [] c.to = "panic" -> [counted EXCEPT !.at = "exited", !.exit = 2,
                                               !.stderr = Append(@, Written(0, "panic"))]
          [] OTHER -> [counted EXCEPT !.at = "hung"]

\* processInput, one iteration of its loop: the scanner delivers the next
\* line, which is skipped when blank and converted otherwise
processLine ==
    /\ loop.pc = "cli"
    /\ loop.at = "scan"
    /\ loop.lineNum < Len(orig.v.lines)
    /\ ~loop.cfg.fileMode
    /\ loop' = afterLine(loop, loop.lineNum + 1,
                         convertLine(loop.cfg, orig.v.lines[loop.lineNum + 1]))
    /\ UNCHANGED <<orig, hist>>

\* the same in file mode: the line names a file, and the platform call
\* that reads its descriptor succeeds or fails
processFile ==
    /\ loop.pc = "cli"
    /\ loop.at = "scan"
    /\ loop.lineNum < Len(orig.v.lines)
    /\ loop.cfg.fileMode
    /\ \E found \in BOOLEAN :
          loop' = afterLine(loop, loop.lineNum + 1,
                     IF IsBlank(orig.v.lines[loop.lineNum + 1]) THEN [to |-> "skip", text |-> ""]
                     ELSE IF found THEN [to |-> "stdout", text |-> orig.v.lines[loop.lineNum + 1]]
                     ELSE [to |-> "stderr", text |-> "error processing file"])
    /\ UNCHANGED <<orig, hist>>

\* the scanner stops: at the end of the input processInput returns nil and
\* the process exits with status 0; on a read error it returns the error
\* and main exits with status 1
processInputReturns ==
    /\ loop.pc = "cli"
    /\ loop.at = "scan"
    /\ loop.lineNum = Len(orig.v.lines)
    /\ loop' = IF orig.v.readError
               THEN [loop EXCEPT !.at = "exited", !.exit = 1,
                                 !.stderr = Append(@, Written(0, "error: error reading input"))]
               ELSE [loop EXCEPT !.at = "exited", !.exit = 0]
    /\ UNCHANGED <<orig, hist>>

\* the lines of the runs: blank ones, descriptors as text and as base64,
\* texts and encodings that are not descriptors, and the text on which the
\* string parser does not return
MaxLines == 3

LineSamples ==
    { <<>>, <<" ", "\t">>,
      <<"O", ":", "S", "Y">>, <<"O", ":", "S", "-", "1", "-">>, <<"X", "O", ":", "S", "Y">>,
      EncodeToString(sdBytes(MakeSD([text |-> <<>>, emit |-> TRUE, ptr |-> Some(SystemSID)],
                                      Absent, Absent, Absent))),
      EncodeToString(<<1, 0, 4>>),
      <<"A", "Q", "A">> }

FlagSamples == {FormatBinary, <<"S", "t", "r", "i", "n", "g">>, <<"t", "e", "x", "t">>}

CliInputs ==
    { Val("cli", [i |-> i, o |-> o, file |-> file, debug |-> FALSE,
                  lines |-> lines, readError |-> readError]) :
        i \in FlagSamples, o \in FlagSamples, file \in BOOLEAN,
        lines \in UNION {[1..n -> LineSamples] : n \in 0..MaxLines},
        readError \in BOOLEAN }

InitCli ==
    /\ orig \in CliInputs
    /\ hist = <<>>
    /\ loop = NoLoop

NextCli ==
    \/ parseFlags
    \/ processLine
    \/ processFile
    \/ processInputReturns

SpecCli == InitCli /\ [][NextCli]_vars

----------------------------------------------------------------------------
(* Properties of the SID codec *)

\* the first call of the session was op, made on a value that stands for a
\* SID outside the format's bounds
FirstCallOutOfBounds(op) ==
    /\ Len(hist) >= 1
    /\ hist[1].op = op
    /\ "of" \in DOMAIN orig
    /\ ~SIDInBounds(orig.of)

BoundedOps == {"SID.Binary", "SID.String", "parseSIDBinary", "parseSIDString"}

\* C4: SID.Binary, SID.String, parseSIDBinary and parseSIDString return an
\* error when the SID they are given (as a structure, as its encoding or as
\* its text) has more than 15 sub-authorities or an authority >= 2^48, and no
\* call ever returns a SID outside these bounds.
C4_BoundEnforcement ==
    /\ \A op \in BoundedOps : FirstCallOutOfBounds(op) => IsErr(hist[1].res)
    /\ \A i \in 1..Len(hist) :
          (IsOk(hist[i].res) /\ hist[i].res.ty = "sid") => SIDInBounds(hist[i].res.val)

\* C4 witness: the text of a revision-1 SID with 16 sub-authorities and a
\* small authority was given to parseSIDString, which returned an error
C4_Witness ==
    /\ FirstCallOutOfBounds("parseSIDString")
    /\ orig.of.Revision = 1
    /\ Len(orig.of.SubAuthority) = 16
    /\ orig.of.IdentifierAuthority = U64(5)
    /\ hist[1].res.err = "ErrTooManySubAuthorities"

\* the session started from an alias or from its canonical text
OnAlias == "alias" \in DOMAIN orig

\* C6: for every alias a of the well-known SID table with canonical text c,
\* parsing a and parsing c succeed and return equal SIDs, and String() of
\* that SID is a.
C6_AliasIdempotence ==
    OnAlias =>
        /\ Len(hist) >= 1 => IsOk(hist[1].res)
        /\ (Len(hist) >= 2 /\ Trace[2] = <<"SID.String", "out">>) =>
              /\ IsOk(hist[2].res)
              /\ hist[2].res.val = orig.alias
        /\ (Len(hist) >= 3 /\ Trace[2] = <<"SID.String", "out">>
                /\ Trace[3] = <<"parseSIDString", "out">>) =>
              /\ IsOk(hist[3].res)
              /\ hist[3].res.val = hist[1].res.val

\* C6 witness: the canonical text of SY was parsed, String() of the result
\* gave the alias SY, and parsing the alias gave the same SID again
C6_Witness ==
    /\ OnAlias
    /\ orig.v = orig.canonical
    /\ orig.alias = <<"S", "Y">>
    /\ Len(hist) = 3
    /\ Trace = << <<"parseSIDString", "orig">>, <<"SID.String", "out">>,
                  <<"parseSIDString", "out">> >>
    /\ hist[2].res.val = <<"S", "Y">>
    /\ hist[3].res.val = hist[1].res.val
    /\ hist[1].res.val.SubAuthority = <<U32(18)>>

----------------------------------------------------------------------------
(* Properties of the ACE codec *)

HasAuditFlag(flags) ==
    HasBit(flags, SUCCESSFUL_ACCESS_ACE) \/ HasBit(flags, FAILED_ACCESS_ACE)

\* the audit invariant of an ACE: SA/FA only on a system-audit ACE, and a
\* system-audit ACE carries at least one of them
AuditInvariant(e) ==
    LET h == e.Header[1]
    IN  /\ HasAuditFlag(h.AceFlags) => h.AceType = 2
        /\ h.AceType = 2 => HasAuditFlag(h.AceFlags)

\* C5: every ACE parseACEString returns satisfies the audit invariant.
C5_AuditInvariant ==
    \A i \in 1..Len(hist) :
        (hist[i].op = "parseACEString" /\ IsOk(hist[i].res)) => AuditInvariant(hist[i].res.val)

\* C5, as observed: parseACEString accepted an audit ACE text with an empty
\* flags field and returned an audit ACE without SA and FA
C5_EmptyAuditFlagsAccepted ==
    /\ Len(hist) = 1
    /\ hist[1].op = "parseACEString"
    /\ orig.v = <<"(", "A", "U", ";", ";", "F", "A", ";", ";", ";", "S", "Y", ")">>
    /\ IsOk(hist[1].res)
    /\ hist[1].res.val.Header[1].AceType = 2
    /\ hist[1].res.val.Header[1].AceFlags = 0

----------------------------------------------------------------------------
(* Properties of the ACL codec *)

\* the first call of the session was a parser, it was given a source that
\* encodes the ACEs orig.aces in that order, and it accepted the source
ParsedEncodedACEs ==
    /\ Len(hist) >= 1
    /\ hist[1].op \in {"parseACLBinary", "parseACLString"}
    /\ "aces" \in DOMAIN orig
    /\ IsOk(hist[1].res)

\* C7: when parseACLBinary or parseACLString accepts a source, the i-th ACE
\* of the result is the i-th ACE encoded in the source, for every i: nothing
\* is reordered, dropped or merged.
C7_OrderPreservation ==
    ParsedEncodedACEs =>
        /\ Len(hist[1].res.val.ACEs) = Len(orig.aces)
        /\ \A i \in 1..Len(orig.aces) : hist[1].res.val.ACEs[i] = orig.aces[i]

\* C7 witness: a source that encodes the third sample, the first, and the
\* third again was parsed, and the result holds these three in that order
C7_Witness ==
    /\ ParsedEncodedACEs
    /\ hist[1].op = "parseACLBinary"
    /\ orig.aces = <<SampleACEs[3].ace, SampleACEs[1].ace, SampleACEs[3].ace>>
    /\ hist[1].res.val.ACEs = orig.aces

----------------------------------------------------------------------------
(* Properties of the security descriptor codec *)

\* the session started from a valid descriptor and made these two calls first
ValidThenBack(op, back) ==
    /\ "valid" \in DOMAIN orig
    /\ Len(hist) >= 2
    /\ Trace[1] = <<op, "orig">>
    /\ Trace[2] = <<back, "out">>

\* structural equality of descriptors, as the tests compare them: everything
\* but the offsets, which belong to an encoding
SameDescriptor(a, b) ==
    /\ a.Revision = b.Revision
    /\ a.Control = b.Control
    /\ a.OwnerSID = b.OwnerSID
    /\ a.GroupSID = b.GroupSID
    /\ a.DACL = b.DACL
    /\ a.SACL = b.SACL

\* C1: for every valid descriptor v, ParseSecurityDescriptorBinary(v.Binary())
\* succeeds and returns a descriptor structurally equal to v.
C1_BinaryRoundTrip ==
    ValidThenBack("SecurityDescriptor.Binary", "ParseSecurityDescriptorBinary") =>
        /\ IsOk(hist[1].res)
        /\ IsOk(hist[2].res)
        /\ SameDescriptor(hist[2].res.val, orig.v)

\* C1 witness: Binary() encoded a valid descriptor with a SACL of 900 ACEs
\* (its AclSize, 64808, fits 16 bits) in more than 65535 bytes, and
\* ParseSecurityDescriptorBinary rejected the encoding at the SACL
C1_LargeSaclRejected ==
    /\ ValidThenBack("SecurityDescriptor.Binary", "ParseSecurityDescriptorBinary")
    /\ orig.v.SACL # Nil
    /\ Len(orig.v.SACL[1].ACEs) >= 900
    /\ orig.v.SACL[1].AclSize = sizeOfACL(orig.v.SACL[1].ACEs)
    /\ orig.v.SACL[1].Control = orig.v.Control
    /\ IsOk(hist[1].res)
    /\ Len(hist[1].res.val) > 65535
    /\ IsErr(hist[2].res)
    /\ hist[2].res.err = "error parsing SACL"

\* an ACL without its Control field
WithoutControl(p) == IF p = Nil THEN Nil ELSE Some([p[1] EXCEPT !.Control = 0])

\* structural equality apart from the control bits
SameApartFromControl(a, b) ==
    /\ a.Revision = b.Revision
    /\ a.OwnerSID = b.OwnerSID
    /\ a.GroupSID = b.GroupSID
    /\ WithoutControl(a.DACL) = WithoutControl(b.DACL)
    /\ WithoutControl(a.SACL) = WithoutControl(b.SACL)

\* C2: for every valid descriptor v, ParseSecurityDescriptorString(v.String())
\* succeeds and returns a descriptor structurally equal to v, apart from the
\* control bits.
C2_StringRoundTrip ==
    ValidThenBack("SecurityDescriptor.String", "ParseSecurityDescriptorString") =>
        /\ IsOk(hist[1].res)
        /\ IsOk(hist[2].res)
        /\ SameApartFromControl(hist[2].res.val, orig.v)

\* C2 witness: String() wrote the access mask 0x00000001 of a valid
\* descriptor's only ACE as the component code CC, and
\* ParseSecurityDescriptorString rejected the text at the DACL
C2_ComponentMaskRejected ==
    /\ ValidThenBack("SecurityDescriptor.String", "ParseSecurityDescriptorString")
    /\ orig.v.DACL # Nil
    /\ Len(orig.v.DACL[1].ACEs) = 1
    /\ orig.v.DACL[1].ACEs[1].AccessMask = U32(1)
    /\ orig.v.OwnerSID = Nil /\ orig.v.GroupSID = Nil /\ orig.v.SACL = Nil
    /\ hist[1].res.val = <<"D", ":", "(", "A", ";", ";", "C", "C", ";", ";", ";", "S", "Y", ")">>
    /\ IsErr(hist[2].res)
    /\ hist[2].res.err = "error parsing DACL"

\* C3: the component loop of ParseSecurityDescriptorString runs at most four
\* iterations, and every iteration consumes a pending component or ends the
\* call.
C3_LoopBound ==
    loop.pc = "loop" => loop.iterations <= 4 /\ loop.consumed

\* C3 witness: on "XO:SY", which holds a marker but does not begin with one,
\* the loop has run five iterations and is where it started
C3_LoopSpins ==
    /\ orig.v = <<"X", "O", ":", "S", "Y">>
    /\ loop.pc = "loop"
    /\ loop.iterations = 5
    /\ ~loop.consumed
    /\ loop.st = sdStringStart
    /\ sdStringContinues(orig.v, loop.st)

\* the session started from a valid descriptor text and parsed it first
ParsedText ==
    /\ "expect" \in DOMAIN orig
    /\ Len(hist) >= 1
    /\ Trace[1] = <<"ParseSecurityDescriptorString", "orig">>

\* C8: every permutation of the O:, G:, D: and S: components of a valid
\* descriptor text is accepted and yields the same descriptor as the
\* O G D S ordering.
C8_OrderIndependence ==
    ParsedText =>
        /\ IsOk(hist[1].res)
        /\ IsOk(ParseSecurityDescriptorString(orig.ogds))
        /\ hist[1].res.val = ParseSecurityDescriptorString(orig.ogds).val
        /\ hist[1].res.val = orig.expect

\* C8 witness: a text with all four components in the order S, D, G, O was
\* parsed into a descriptor with an owner, a group, a DACL of two ACEs and a
\* SACL of one
C8_Witness ==
    /\ ParsedText
    /\ orig.v = <<"S", ":", "A", "R", "(", "A", "U", ";", "S", "A", "F", "A", ";", "0", "x", "0", "0", "0", "0", "0", "2", "0", "0", ";", ";", ";", "S", "-", "1", "-", "5", "-", "2", "1", "-", "1", "-", "2", "-", "3", "-", "5", "0", "0", ")", "D", ":", "P", "A", "I", "(", "A", ";", ";", "F", "A", ";", ";", ";", "S", "Y", ")", "(", "D", ";", "O", "I", "C", "I", ";", "F", "R", ";", ";", ";", "W", "D", ")", "G", ":", "B", "A", "O", ":", "S", "Y">>
    /\ orig.ogds = <<"O", ":", "S", "Y", "G", ":", "B", "A", "D", ":", "P", "A", "I", "(", "A", ";", ";", "F", "A", ";", ";", ";", "S", "Y", ")", "(", "D", ";", "O", "I", "C", "I", ";", "F", "R", ";", ";", ";", "W", "D", ")", "S", ":", "A", "R", "(", "A", "U", ";", "S", "A", "F", "A", ";", "0", "x", "0", "0", "0", "0", "0", "2", "0", "0", ";", ";", ";", "S", "-", "1", "-", "5", "-", "2", "1", "-", "1", "-", "2", "-", "3", "-", "5", "0", "0", ")">>
    /\ IsOk(hist[1].res)
    /\ hist[1].res.val.OwnerSID = Some(SystemSID)
    /\ hist[1].res.val.GroupSID = Some(AdminsSID)
    /\ Len(hist[1].res.val.DACL[1].ACEs) = 2
    /\ Len(hist[1].res.val.SACL[1].ACEs) = 1

\* the session started from a text in the form String() writes, parsed it
\* and called String() on the result
EmitFormBack ==
    /\ "emit" \in DOMAIN orig
    /\ orig.emit
    /\ Len(hist) >= 2
    /\ Trace[1] = <<"ParseSecurityDescriptorString", "orig">>
    /\ Trace[2] = <<"SecurityDescriptor.String", "out">>

\* C9: for every descriptor text s in emit form,
\* ParseSecurityDescriptorString(s) succeeds and String() of the result is s.
C9_StringStability ==
    EmitFormBack =>
        /\ IsOk(hist[1].res)
        /\ IsOk(hist[2].res)
        /\ hist[2].res.val = orig.v

\* C9 witness: "D:R(A;;FA;;;SY)" was parsed and String() of the result is
\* "D:(A;;FA;;;SY)"
C9_DefaultedFlagDropped ==
    /\ EmitFormBack
    /\ orig.v = <<"D", ":", "R", "(", "A", ";", ";", "F", "A", ";", ";", ";", "S", "Y", ")">>
    /\ IsOk(hist[1].res)
    /\ hist[2].res.val = <<"D", ":", "(", "A", ";", ";", "F", "A", ";", ";", ";", "S", "Y", ")">>

\* C10: ACE.Binary, ACL.Binary, parseACEString and parseACLString never store
\* or emit a size or count other than the value computed: a result they
\* return has the ACL size 8 + the sum of the ACE sizes, the ACE count the
\* number of ACEs, the ACE size 16 + 4 per sub-authority, and an encoding is
\* as long as the size it states.
C10_NoSilentTruncation ==
    \A i \in 1..Len(hist) :
        IsOk(hist[i].res) =>
            /\ hist[i].op = "parseACLString" =>
                  /\ hist[i].res.val.AclSize
                        = 8 + Sum([k \in 1..Len(hist[i].res.val.ACEs) |->
                                      hist[i].res.val.ACEs[k].Header[1].AceSize])
                  /\ hist[i].res.val.AceCount = Len(hist[i].res.val.ACEs)
            /\ hist[i].op = "parseACEString" =>
                  hist[i].res.val.Header[1].AceSize
                      = 16 + 4 * Len(hist[i].res.val.SID[1].SubAuthority)
            /\ hist[i].op \in {"ACL.Binary", "ACE.Binary"} =>
                  Len(hist[i].res.val) = hist[i].res.val[3] + 256 * hist[i].res.val[4]

\* C10 witness: parseACLString accepted the text of 863 ACEs of 76 bytes and
\* returned an ACL that states the size 60, which is 65596 modulo 2^16
C10_TruncatedAclSize ==
    /\ Len(hist) >= 1
    /\ Trace[1] = <<"parseACLString", "orig">>
    /\ IsOk(hist[1].res)
    /\ Len(hist[1].res.val.ACEs) = 863
    /\ \A k \in 1..863 : hist[1].res.val.ACEs[k].Header[1].AceSize = 76
    /\ hist[1].res.val.AclSize = 60
    /\ hist[1].res.val.AceCount = 863

\* what a call returns when it runs alone on the starting descriptor
Alone(op) ==
    IF op = "SecurityDescriptor.Binary" THEN SecurityDescriptor_Binary(Some(orig.v))
    ELSE SecurityDescriptor_String(Some(orig.v))

\* C11: calls may run concurrently on the same descriptor with no locking:
\* each returns what it returns alone, and no call writes to memory another
\* call reads.  (The alias and access-mask tables are definitions here: no
\* action can write them.)
C11_NoInterference ==
    loop.pc = "calls" =>
        /\ ~loop.raced
        /\ \A t \in Threads :
              loop.calls[t].at = "returned" => loop.calls[t].res = Alone(loop.calls[t].op)

\* C11 witness: two Binary() calls on one descriptor have both done
\* sd.Control |= SE_SELF_RELATIVE, neither has returned, and the second write
\* raced with the first
C11_ControlRace ==
    /\ loop.pc = "calls"
    /\ \A t \in Threads :
          /\ loop.calls[t].op = "SecurityDescriptor.Binary"
          /\ loop.calls[t].at = "written"
          /\ Access("sd.Control", "write") \in loop.calls[t].touched
    /\ loop.raced
    /\ ~HasBit(orig.v.Control, SE_SELF_RELATIVE)
    /\ HasBit(loop.shared.Control, SE_SELF_RELATIVE)

\* the value the i-th call was made on
ArgOf(i) == IF hist[i].on = "orig" THEN orig.v ELSE hist[i - 1].res.val

\* the present bits of a descriptor agree with its ACL fields
PresentAgrees(sd) ==
    /\ sd.DACL # Nil <=> HasBit(sd.Control, SE_DACL_PRESENT)
    /\ sd.SACL # Nil <=> HasBit(sd.Control, SE_SACL_PRESENT)

\* C12: SecurityDescriptor.Binary returns an error whenever, for the DACL or
\* the SACL, the field is non-nil while the present bit is clear or the bit is
\* set while the field is nil; it produces bytes only when both agree.
C12_PresentBitsEnforced ==
    \A i \in 1..Len(hist) :
        hist[i].op = "SecurityDescriptor.Binary" =>
            /\ ~PresentAgrees(ArgOf(i)) => IsErr(hist[i].res)
            /\ IsOk(hist[i].res) => PresentAgrees(ArgOf(i))

\* C12 witness: Binary() was called on a descriptor with an owner, the
\* DACL-present bit set and no DACL, and returned the error for that
C12_Witness ==
    /\ Len(hist) >= 1
    /\ Trace[1] = <<"SecurityDescriptor.Binary", "orig">>
    /\ orig.v.OwnerSID # Nil
    /\ orig.v.DACL = Nil
    /\ HasBit(orig.v.Control, SE_DACL_PRESENT)
    /\ orig.v.SACL # Nil <=> HasBit(orig.v.Control, SE_SACL_PRESENT)
    /\ hist[1].res.err = "SE_DACL_PRESENT flag set but DACL is nil"

\* the flags the text of an ACL component carried
Carried(part) == IF part.ptr = Nil THEN {} ELSE part.ptr[1].flags

Appeared(part) == part.ptr # Nil

\* C13: after ParseSecurityDescriptorString succeeds, Control has the
\* self-relative bit; each defaulted bit is clear exactly when its component
\* appeared; each present bit is set exactly when its ACL appeared; and each
\* protected, auto-inherited and auto-inherit-required bit is set exactly
\* when its ACL carried P, AI and AR.
C13_ControlBits ==
    (ParsedText /\ IsOk(hist[1].res)) =>
        LET c == hist[1].res.val.Control
            o == orig.parts[1]
            g == orig.parts[2]
            d == orig.parts[3]
            s == orig.parts[4]
        IN  /\ HasBit(c, SE_SELF_RELATIVE)
            /\ HasBit(c, SE_OWNER_DEFAULTED) <=> ~Appeared(o)
            /\ HasBit(c, SE_GROUP_DEFAULTED) <=> ~Appeared(g)
            /\ HasBit(c, SE_DACL_DEFAULTED) <=> ~Appeared(d)
            /\ HasBit(c, SE_SACL_DEFAULTED) <=> ~Appeared(s)
            /\ HasBit(c, SE_DACL_PRESENT) <=> Appeared(d)
            /\ HasBit(c, SE_SACL_PRESENT) <=> Appeared(s)
            /\ HasBit(c, SE_DACL_PROTECTED) <=> "P" \in Carried(d)
            /\ HasBit(c, SE_DACL_AUTO_INHERITED) <=> "AI" \in Carried(d)
            /\ HasBit(c, SE_DACL_AUTO_INHERIT_RE) <=> "AR" \in Carried(d)
            /\ HasBit(c, SE_SACL_PROTECTED) <=> "P" \in Carried(s)
            /\ HasBit(c, SE_SACL_AUTO_INHERITED) <=> "AI" \in Carried(s)
            /\ HasBit(c, SE_SACL_AUTO_INHERIT_RE) <=> "AR" \in Carried(s)

\* C13 witness: a text with an owner, no group, a DACL carrying AR and R and
\* a SACL carrying P and AI was parsed; Control is self-relative, group
\* defaulted, both ACLs present, DACL auto-inherit-required, SACL protected
\* and auto-inherited
C13_Witness ==
    /\ ParsedText
    /\ IsOk(hist[1].res)
    /\ Appeared(orig.parts[1]) /\ ~Appeared(orig.parts[2])
    /\ Carried(orig.parts[3]) = {"AR", "R"}
    /\ Carried(orig.parts[4]) = {"P", "AI"}
    /\ hist[1].res.val.Control
          = SE_SELF_RELATIVE + SE_GROUP_DEFAULTED + SE_DACL_PRESENT + SE_SACL_PRESENT
              + SE_DACL_AUTO_INHERIT_RE + SE_SACL_PROTECTED + SE_SACL_AUTO_INHERITED

DescriptorParsers == {"ParseSecurityDescriptorString", "ParseSecurityDescriptorBinary"}

\* the Control of each present ACL of a descriptor is the descriptor's
Mirrors(sd) ==
    /\ sd.DACL # Nil => sd.DACL[1].Control = sd.Control
    /\ sd.SACL # Nil => sd.SACL[1].Control = sd.Control

ParsedMalformed ==
    /\ "malformed" \in DOMAIN orig
    /\ Len(hist) >= 1
    /\ Trace[1] = <<"ParseSecurityDescriptorString", "orig">>

\* C15: ParseSecurityDescriptorString rejects every string in which a
\* component kind occurs more than once and every string with text after its
\* components.
C15_RepeatedKindRejected ==
    ParsedMalformed => IsErr(hist[1].res)

\* C15 witness: "O:SYD:(A;;FA;O:;;SY)", in which O: occurs twice, was parsed
\* into a descriptor with the owner SY and a DACL of one ACE
C15_RepeatedKindAccepted ==
    /\ ParsedMalformed
    /\ orig.malformed = "repeated"
    /\ orig.v = <<"O", ":", "S", "Y", "D", ":", "(", "A", ";", ";", "F", "A", ";", "O", ":", ";", ";", "S", "Y", ")">>
    /\ IsOk(hist[1].res)
    /\ hist[1].res.val.OwnerSID = Some(SystemSID)
    /\ hist[1].res.val.DACL # Nil
    /\ hist[1].res.val.DACL[1].ACEs = <<MakeACE(0, 0, FileAll, SystemSID)>>

\* C16: every codec call returns a value or an error: none panics and none
\* fails to return.
C16_ValueOrError ==
    \A i \in 1..Len(hist) : hist[i].res.kind \in {"ok", "err"}

\* C16 witness: String() was called on an ACE with a header and a nil SID,
\* and panicked
C16_NilSIDPanics ==
    /\ Len(hist) >= 1
    /\ Trace[1] = <<"ACE.String", "orig">>
    /\ orig.v.Header # Nil
    /\ orig.v.SID = Nil
    /\ hist[1].res.kind = "panic"

\* the offset fields of a blob of at least 20 bytes: owner, group, SACL, DACL
OffsetField(data, k) == Uint32LE(data, 4 * k)

\* C17: in every descriptor ParseSecurityDescriptorBinary returns, OwnerSID,
\* GroupSID, SACL and DACL are each non-nil exactly when the offset field of
\* the input is non-zero, whatever the present bits say and whatever the
\* order of the components in the blob.
C17_PresenceFromOffsets ==
    \A i \in 1..Len(hist) :
        (hist[i].op = "ParseSecurityDescriptorBinary" /\ IsOk(hist[i].res)) =>
            /\ hist[i].res.val.OwnerSID # Nil <=> ~IsZero(OffsetField(ArgOf(i), 1))
            /\ hist[i].res.val.GroupSID # Nil <=> ~IsZero(OffsetField(ArgOf(i), 2))
            /\ hist[i].res.val.SACL # Nil <=> ~IsZero(OffsetField(ArgOf(i), 3))
            /\ hist[i].res.val.DACL # Nil <=> ~IsZero(OffsetField(ArgOf(i), 4))

\* C17 witness: a blob was parsed whose control field has the SACL-present
\* bit and not the DACL-present bit, whose DACL stands first in the blob,
\* before the owner, and which has no SACL and no group; the descriptor has
\* the owner and the DACL and neither SACL nor group
C17_Witness ==
    /\ Len(hist) >= 1
    /\ Trace[1] = <<"ParseSecurityDescriptorBinary", "orig">>
    /\ Len(orig.v) >= 20
    /\ Uint16LE(orig.v, 2) = SE_SELF_RELATIVE + SE_SACL_PRESENT
    /\ OffsetField(orig.v, 4) = U32(20)
    /\ OffsetField(orig.v, 1) = U32(48)
    /\ IsZero(OffsetField(orig.v, 2)) /\ IsZero(OffsetField(orig.v, 3))
    /\ IsOk(hist[1].res)
    /\ hist[1].res.val.OwnerSID = Some(SystemSID)
    /\ hist[1].res.val.DACL # Nil /\ Len(hist[1].res.val.DACL[1].ACEs) = 1
    /\ hist[1].res.val.SACL = Nil /\ hist[1].res.val.GroupSID = Nil

\* the error ParseSecurityDescriptorBinary returns for an offset field
OffsetError ==
    <<"invalid security descriptor: Owner offset exceeds data length",
      "invalid security descriptor: Group offset exceeds data length",
      "invalid security descriptor: SACL offset exceeds data length",
      "invalid security descriptor: DACL offset exceeds data length">>

\* the offset fields of a blob that are non-zero and not below its length
Exceeding(data) ==
    { k \in 1..4 : /\ ~IsZero(OffsetField(data, k))
                   /\ ~Less32(OffsetField(data, k), U32(Len(data))) }

\* C18: ParseSecurityDescriptorBinary fails, with an error naming the field,
\* whenever an offset field is non-zero and greater than or equal to the
\* length of the input (of several such fields the error names the first).
C18_OffsetBeyondInput ==
    \A i \in 1..Len(hist) :
        (/\ hist[i].op = "ParseSecurityDescriptorBinary"
         /\ Len(ArgOf(i)) >= 20
         /\ Exceeding(ArgOf(i)) # {}) =>
            /\ IsErr(hist[i].res)
            /\ hist[i].res.val = <<>>
            /\ \E k \in Exceeding(ArgOf(i)) :
                  /\ hist[i].res.err = OffsetError[k]
                  /\ \A j \in Exceeding(ArgOf(i)) : k <= j

\* C18 witness: a blob whose SACL offset equals its length, with the other
\* three offsets inside it, was rejected with the SACL error
C18_Witness ==
    /\ Len(hist) >= 1
    /\ Trace[1] = <<"ParseSecurityDescriptorBinary", "orig">>
    /\ Len(orig.v) >= 20
    /\ OffsetField(orig.v, 3) = U32(Len(orig.v))
    /\ Exceeding(orig.v) = {3}
    /\ hist[1].res.err = OffsetError[3]

\* the encodings of the components of a descriptor, in the order owner,
\* group, SACL, DACL; <<>> for an absent one
Components(sd) ==
    << IF sd.OwnerSID = Nil THEN <<>> ELSE SID_Binary(sd.OwnerSID).val,
       IF sd.GroupSID = Nil THEN <<>> ELSE SID_Binary(sd.GroupSID).val,
       IF sd.SACL = Nil THEN <<>> ELSE ACL_Binary(sd.SACL).val,
       IF sd.DACL = Nil THEN <<>> ELSE ACL_Binary(sd.DACL).val >>

\* bytes is the header followed by the components c, each at the position
\* its offset field states
LaidOut(sd, c, bytes) ==
    /\ Len(bytes) = 20 + Len(c[1]) + Len(c[2]) + Len(c[3]) + Len(c[4])
    /\ bytes[1] = sd.Revision
    /\ bytes[2] = sd.Sbzl
    /\ HasBit(Uint16LE(bytes, 2), SE_SELF_RELATIVE)
    /\ Uint16LE(bytes, 2) = SetBit(sd.Control, SE_SELF_RELATIVE)
    /\ \A k \in 1..4 :
          LET start == 20 + Sum([j \in 1..4 |-> IF j < k THEN Len(c[j]) ELSE 0])
          IN  /\ OffsetField(bytes, k) = IF c[k] = <<>> THEN U32(0) ELSE U32(start)
              /\ SubSeq(bytes, start + 1, start + Len(c[k])) = c[k]

\* C19: whenever SecurityDescriptor.Binary succeeds, its output is the
\* 20-byte header, with the self-relative bit set, followed by the present
\* components in the order owner, group, SACL, DACL with no gap or overlap;
\* each offset field is the start of its component, or 0; and the length is
\* 20 plus the lengths of the components.
C19_BinaryLayout ==
    \A i \in 1..Len(hist) :
        (hist[i].op = "SecurityDescriptor.Binary" /\ IsOk(hist[i].res)) =>
            LaidOut(ArgOf(i), Components(ArgOf(i)), hist[i].res.val)

\* C19 witness: a blob whose control field is 0x0004, with an owner, a
\* group and a DACL that stands first in the blob, was parsed and the
\* descriptor encoded: the encoding has the control field 0x8004, the owner
\* at 20, the group at 32, the DACL at 48, no SACL, and 76 bytes
C19_Witness ==
    /\ Len(hist) = 2
    /\ Trace = << <<"ParseSecurityDescriptorBinary", "orig">>,
                  <<"SecurityDescriptor.Binary", "out">> >>
    /\ Uint16LE(orig.v, 2) = SE_DACL_PRESENT
    /\ OffsetField(orig.v, 4) = U32(20)
    /\ IsOk(hist[2].res)
    /\ Uint16LE(hist[2].res.val, 2) = SE_SELF_RELATIVE + SE_DACL_PRESENT
    /\ OffsetField(hist[2].res.val, 1) = U32(20)
    /\ OffsetField(hist[2].res.val, 2) = U32(32)
    /\ OffsetField(hist[2].res.val, 3) = U32(0)
    /\ OffsetField(hist[2].res.val, 4) = U32(48)
    /\ Len(hist[2].res.val) = 76

----------------------------------------------------------------------------
(* Properties of the command line front end *)

\* the entries of a stream that are about input line n
About(stream, n) == {k \in 1..Len(stream) : stream[k].line = n}

\* line n of the run has been read and came to what the line comes to on
\* its own: nothing for a blank line, one line of output for a descriptor,
\* one diagnostic for a line that fails to decode or parse
HandledAlone(n) ==
    LET input == orig.v.lines[n]
        outs == About(loop.stdout, n)
        errs == About(loop.stderr, n)
        own == convertLine(loop.cfg, input)
    IN  /\ IsBlank(input) => outs = {} /\ errs = {}
        /\ ~IsBlank(input) => Cardinality(outs) + Cardinality(errs) = 1
        /\ ~IsBlank(input) /\ ~loop.cfg.fileMode =>
              /\ own.to \in {"stdout", "stderr"}
              /\ own.to = "stdout" => \E k \in outs : loop.stdout[k].text = own.text
              /\ own.to = "stderr" => \E k \in errs : loop.stderr[k].text = own.text

----------------------------------------------------------------------------
(* Properties of the access mask text *)

\* ACE.String was called on the ACE the session started from and returned
\* the text of an ACE
WroteACE ==
    /\ orig.ty = "ace"
    /\ orig.v.Header # Nil
    /\ Len(hist) >= 1
    /\ Trace[1] = <<"ACE.String", "orig">>
    /\ IsOk(hist[1].res)

\* the access mask field of the text ACE.String returned: the third of the
\* fields between the semicolons
WrittenMask == Split(hist[1].res.val, ";")[3]

\* C21: the mask text ACE.String emits for an access mask (an alias, the
\* concatenated component codes, or the 0x literal) is accepted by
\* parseAccessMask and parses back to exactly that mask.
C21_MaskTextReversible ==
    WroteACE => parseAccessMask(WrittenMask).val = orig.v.AccessMask
                    /\ IsOk(parseAccessMask(WrittenMask))

\* C21, the case that fails: the mask 0x00000001 is no alias and is all
\* component bits, ACE.String wrote it as "CC", and parseAccessMask returns
\* an error for "CC".
C21_ComponentCodesRejected ==
    /\ WroteACE
    /\ orig.v.AccessMask = U32(1)
    /\ WrittenMask = <<"C", "C">>
    /\ IsErr(parseAccessMask(WrittenMask))

----------------------------------------------------------------------------
(* Properties of the binary ACL parser *)

\* parseACLBinary was called on the bytes the session started from and
\* returned an ACL
DecodedACL ==
    /\ orig.ty = "bytes"
    /\ Len(hist) >= 1
    /\ Trace[1] = <<"parseACLBinary", "orig">>
    /\ IsOk(hist[1].res)

\* the size fields of an ACL agree with its ACEs and with the number of
\* bytes it was read from
SizesAgree(acl, supplied) ==
    /\ acl.AceCount = Len(acl.ACEs)
    /\ \A i \in 1..Len(acl.ACEs) :
          acl.ACEs[i].Header[1].AceSize = 8 + Len(sidBytes(acl.ACEs[i].SID[1]))
    /\ acl.AclSize = 8 + Sum([i \in 1..Len(acl.ACEs) |-> acl.ACEs[i].Header[1].AceSize])
    /\ acl.AclSize <= supplied

\* C22: every ACL parseACLBinary returns is internally consistent (AceCount
\* is the number of ACEs, each AceSize is 8 plus the length of the SID,
\* AclSize is 8 plus the sum of the AceSize values and at most the number of
\* bytes supplied), so ACL.Binary() of a decoded ACL succeeds.
C22_DecodedACLConsistent ==
    /\ (DecodedACL /\ Len(hist) = 1) => SizesAgree(hist[1].res.val, Len(orig.v))
    /\ (DecodedACL /\ Len(hist) >= 2 /\ Trace[2] = <<"ACL.Binary", "out">>) => IsOk(hist[2].res)

\* C22, the case that fails: an ACL whose one ACE declares 24 bytes and has
\* a SID of 12 bytes, followed by four bytes, was decoded, and ACL.Binary()
\* of the decoded ACL returns an error.
C22_PaddedACEAccepted ==
    /\ DecodedACL
    /\ Len(hist) = 2
    /\ Trace[2] = <<"ACL.Binary", "out">>
    /\ Len(hist[1].res.val.ACEs) = 1
    /\ hist[1].res.val.ACEs[1].Header[1].AceSize = 24
    /\ Len(sidBytes(hist[1].res.val.ACEs[1].SID[1])) = 12
    /\ IsErr(hist[2].res)

\* parseACLBinary was the first call of the session, made on the long slice
\* the session started from
ParsedPaddedACL ==
    /\ orig.ty = "padded"
    /\ Len(hist) >= 1
    /\ Trace[1] = <<"parseACLBinary", "orig">>

\* the loop of parseACLBinary over data before its i-th iteration: the
\* position it reads next, the ACEs read so far, and whether it has ended
BeforeIteration(data, i) ==
    aclBinaryLoop(data, 0, Uint16LE(data, 2),
                  [offset |-> 8, aces |-> <<>>, res |-> Running], 1, i - 1)

\* 8 plus the sum of the sizes the ACEs declare
DeclaredEnd(aces) == 8 + Sum([j \in 1..Len(aces) |-> aces[j].Header[1].AceSize])

\* C23: parseACLBinary parses exactly aceCount ACEs; the i-th ACE is read
\* at byte position 8 plus the sum of the declared AceSize values of the
\* ACEs before it, and the parse fails with the offset error as soon as
\* such a position is greater than or equal to the declared AclSize.
C23_ReadPositions ==
    (ParsedPaddedACL /\ Uint16(orig.v.length) >= 8) =>
        LET data == Padded(orig.v)
            aclSize == Uint16LE(data, 2)
            aceCount == Uint16LE(data, 4)
        IN  /\ IsOk(hist[1].res) => Len(hist[1].res.val.ACEs) = aceCount
            /\ \A i \in 1..aceCount :
                  BeforeIteration(data, i).res.kind = "none" =>
                      /\ BeforeIteration(data, i).offset
                            = DeclaredEnd(BeforeIteration(data, i).aces)
                      /\ DeclaredEnd(BeforeIteration(data, i).aces) >= aclSize =>
                            hist[1].res.err = "invalid ACL: offset is bigger than AclSize"

\* C23 witness: in a slice of 65588 bytes an ACL of two ACEs was parsed; the
\* first ACE declares 24 bytes and the second was read at position 32
C23_Witness ==
    /\ ParsedPaddedACL
    /\ orig.v.length = 65588
    /\ IsOk(hist[1].res)
    /\ Len(hist[1].res.val.ACEs) = 2
    /\ hist[1].res.val.ACEs[1].Header[1].AceSize = 24
    /\ BeforeIteration(Padded(orig.v), 2).offset = 32

\* the position at which parseACLBinary read the i-th ACE of data, and the
\* first position after the bytes that ACE was parsed from
ReadFrom(data, i) == BeforeIteration(data, i).offset
ReadUpTo(data, i, ace) == ReadFrom(data, i) + 8 + Len(sidBytes(ace.SID[1]))

\* C24: the number of ACEs parseACLBinary returns never exceeds
\* (AclSize - 8) / 16, the read position strictly increases from one ACE to
\* the next, and no byte range of the input is parsed as more than one ACE.
C24_CountBounded ==
    DecodedACL =>
        LET acl == hist[1].res.val
            n == Len(acl.ACEs)
        IN  /\ 16 * n <= acl.AclSize - 8
            /\ \A i \in 1..(n - 1) : ReadFrom(orig.v, i) < ReadFrom(orig.v, i + 1)
            /\ \A i, j \in 1..n :
                  i < j => \/ ReadUpTo(orig.v, i, acl.ACEs[i]) <= ReadFrom(orig.v, j)
                           \/ ReadUpTo(orig.v, j, acl.ACEs[j]) <= ReadFrom(orig.v, i)

\* C24, the case that fails: an ACL of 28 bytes declares three ACEs and its
\* ACE declares an AceSize of 0; parseACLBinary returned three ACEs, all
\* read at position 8 from the same 20 bytes.
C24_SameACEThrice ==
    /\ DecodedACL
    /\ Len(orig.v) = 28
    /\ hist[1].res.val.AclSize = 28
    /\ Len(hist[1].res.val.ACEs) = 3
    /\ \A i \in 1..3 :
          /\ ReadFrom(orig.v, i) = 8
          /\ hist[1].res.val.ACEs[i].Header[1].AceSize = 0
          /\ ReadUpTo(orig.v, i, hist[1].res.val.ACEs[i]) = 28

\* parseACEBinary was the first call of the session, made on the long slice
\* the session started from
ParsedPaddedACE ==
    /\ orig.ty = "padded"
    /\ Len(hist) >= 1
    /\ Trace[1] = <<"parseACEBinary", "orig">>

\* C25: for slices of every length, lengths above 65535 included,
\* parseACEBinary fails exactly when fewer than 16 bytes are available, or
\* the declared AceSize exceeds the number of bytes available, or the SID at
\* offset 8 fails to parse.
C25_TrueLength ==
    ParsedPaddedACE =>
        (IsErr(hist[1].res) <=>
            \/ orig.v.length < 16
            \/ Uint16LE(Padded(orig.v), 2) > orig.v.length
            \/ ~IsOk(parseSIDBinary(Padded(orig.v), 8)))

\* C25, the case that fails: a slice of 65544 bytes begins with an ACE that
\* declares 20 bytes and holds the SID S-1-5-18, and parseACEBinary returns
\* the error of a slice shorter than 16 bytes.
C25_LongSliceTooShort ==
    /\ ParsedPaddedACE
    /\ orig.v.length = 65544
    /\ Uint16LE(orig.v.head, 2) = 20
    /\ IsOk(parseSIDBinary(Padded(orig.v), 8))
    /\ hist[1].res.err = "invalid ACE: too short"

----------------------------------------------------------------------------
(* Properties of the binary encoders *)

\* the last call was op, and it returned a value
Returned(op) == hist # <<>> /\ Last.op = op /\ IsOk(Out)

\* C26: the encoders never emit bytes whose size or count fields disagree
\* with the content: ACE.Binary succeeds only when Header.AceSize is 8 plus
\* the binary length of the SID, ACL.Binary only when AclSize is 8 plus the
\* sum of the binary lengths of its ACEs and AceCount is the number of
\* ACEs, and the length of the output equals the size field written in it.
C26_EncodedSizes ==
    /\ Returned("ACE.Binary") =>
          LET e == ArgOf(Len(hist))
          IN  /\ e.Header[1].AceSize = 8 + Len(SID_Binary(e.SID).val)
              /\ Uint16LE(Out.val, 2) = Len(Out.val)
    /\ Returned("ACL.Binary") =>
          LET a == ArgOf(Len(hist))
          IN  /\ a.AclSize = 8 + Sum([i \in 1..Len(a.ACEs) |->
                                         Len(ACE_Binary(Some(a.ACEs[i])).val)])
              /\ a.AceCount = Len(a.ACEs)
              /\ Uint16LE(Out.val, 2) = Len(Out.val)
              /\ Uint16LE(Out.val, 4) = Len(a.ACEs)

\* C26 witness: ACL.Binary was called on an ACL of two ACEs of 20 and 36
\* bytes and returned 64 bytes with the size 64 and the count 2 in them
C26_Witness ==
    /\ Returned("ACL.Binary")
    /\ Last.on = "orig"
    /\ orig.v.ACEs = <<SampleACEs[1].ace, SampleACEs[3].ace>>
    /\ Len(Out.val) = 64
    /\ Uint16LE(Out.val, 2) = 64
    /\ Uint16LE(Out.val, 4) = 2

----------------------------------------------------------------------------
(* Properties of the binary SID parser *)

\* parseSIDBinary was called on the bytes the session started from, which
\* are at least 8 and have a count byte above 15
ParsedOverCount ==
    /\ orig.ty = "bytes"
    /\ Len(orig.v) >= 8
    /\ At(orig.v, 1) > MaxSubAuthorities
    /\ Len(hist) >= 1
    /\ Trace[1] = <<"parseSIDBinary", "orig">>

\* C27: parseSIDBinary reports the too-many-sub-authorities error for every
\* input of at least 8 bytes whose count byte is greater than 15, however
\* many bytes follow the 8-byte header.
C27_TooManyReported ==
    ParsedOverCount => hist[1].res.err = "invalid SID: too many sub-authorities"

\* C27, the case that fails: the input has a count byte of 16 and 71 bytes,
\* one less than 16 sub-authorities take, and parseSIDBinary reports
\* truncated data.
C27_TruncatedReported ==
    /\ ParsedOverCount
    /\ At(orig.v, 1) = 16
    /\ Len(orig.v) = 71
    /\ hist[1].res.err = "invalid SID: truncated data"

----------------------------------------------------------------------------
(* Properties of the ACL flags *)

\* parseACLString was the first call of the session, made on the text with
\* a flag run the session started from
ParsedFlagged ==
    /\ "run" \in DOMAIN orig
    /\ Len(hist) >= 1
    /\ Trace[1] = <<"parseACLString", "orig">>

\* a text is a run of the six flag codes
RECURSIVE IsCodeRun(_)
IsCodeRun(s) ==
    \/ s = <<>>
    \/ \E code \in FlagCodes : HasPrefix(s, code) /\ IsCodeRun(From(s, Len(code)))

\* the run without its NO and IO codes
Effective(codes) == SelectSeq(codes, LAMBDA code : code \notin {<<"N", "O">>, <<"I", "O">>})

\* the control bit of a flag code in an ACL of the type
OwnBit(aclType, code) ==
    IF aclType = <<"D">>
    THEN CASE code = <<"P">> -> SE_DACL_PROTECTED
           [] code = <<"A", "I">> -> SE_DACL_AUTO_INHERITED
           [] code = <<"A", "R">> -> SE_DACL_AUTO_INHERIT_RE
           [] code = <<"R">> -> SE_DACL_DEFAULTED
    ELSE CASE code = <<"P">> -> SE_SACL_PROTECTED
           [] code = <<"A", "I">> -> SE_SACL_AUTO_INHERITED
           [] code = <<"A", "R">> -> SE_SACL_AUTO_INHERIT_RE
           [] code = <<"R">> -> SE_SACL_DEFAULTED

AllOwnBits(aclType) ==
    { OwnBit(aclType, code) : code \in {<<"P">>, <<"A", "I">>, <<"A", "R">>, <<"R">>} }

\* C28: in parseACLString the codes NO and IO are accepted and have no
\* effect (the text with them and the text without them give ACLs equal in
\* every field), P, AI, AR and R each set exactly their own control bit for
\* the type of the ACL, and a flag run that is no run of P, R, AI, AR, NO
\* and IO is rejected.
C28_FlagCodes ==
    ParsedFlagged =>
        /\ ~IsCodeRun(orig.run) => IsErr(hist[1].res)
        /\ "codes" \in DOMAIN orig =>
              /\ IsOk(hist[1].res)
              /\ hist[1].res.val
                    = parseACLString(orig.prefix \o Concat(Effective(orig.codes))
                                        \o orig.rest).val
              /\ \A bit \in AllOwnBits(hist[1].res.val.AclType) :
                    HasBit(hist[1].res.val.Control, bit)
                        <=> \E i \in 1..Len(orig.codes) :
                               /\ orig.codes[i] \notin {<<"N", "O">>, <<"I", "O">>}
                               /\ OwnBit(hist[1].res.val.AclType, orig.codes[i]) = bit

\* C28 witness: the text "S:NOARIO(A;;FA;;;SY)" was parsed; the ACL is the
\* one "S:AR(A;;FA;;;SY)" gives, with the SACL bit and the
\* auto-inherit-required bit of a SACL and none of the other three
C28_Witness ==
    /\ ParsedFlagged
    /\ orig.prefix = <<"S", ":">>
    /\ orig.run = <<"N", "O", "A", "R", "I", "O">>
    /\ orig.rest # <<>>
    /\ IsOk(hist[1].res)
    /\ Len(hist[1].res.val.ACEs) = 1
    /\ hist[1].res.val.Control = SE_SACL_PRESENT + SE_SACL_AUTO_INHERIT_RE
    /\ hist[1].res.val = parseACLString(<<"S", ":", "A", "R">> \o orig.rest).val

----------------------------------------------------------------------------
(* Properties of the serializers' receivers *)

Serializers ==
    { "SID.Binary", "SID.String", "ACE.Binary", "ACE.String", "ACL.Binary", "ACL.String",
      "SecurityDescriptor.Binary", "SecurityDescriptor.String" }

\* the value the last call was made on, as it is now
Receiver == IF Last.on = "orig" THEN orig.v ELSE hist[Len(hist) - 1].res.val

\* the step is a call of a serializer
Serialized == Len(hist') = Len(hist) + 1 /\ Last'.op \in Serializers

\* the value the call of the step is made on, before the call
ReceiverBefore == IF Last'.on = "orig" THEN orig.v ELSE Out.val

\* what the step leaves alone: the value the session started from when the
\* call is made on a returned value, and every call made before it, with
\* what was returned, when the call is made on the first value
OthersKept ==
    /\ \A i \in 1..(Len(hist) - 1) : hist'[i] = hist[i]
    /\ Last'.on = "orig" => \A i \in 1..Len(hist) : hist'[i] = hist[i]
    /\ Last'.on = "out" =>
          /\ orig' = orig
          /\ hist'[Len(hist)].op = Last.op
          /\ hist'[Len(hist)].on = Last.on
          /\ hist'[Len(hist)].res.kind = Out.kind

\* C29: a call of SID.Binary, ACE.Binary, ACL.Binary or a String method
\* leaves the value it is called on as it was, and a call of
\* SecurityDescriptor.Binary changes nothing of it but Control, which
\* becomes what it was with the self-relative bit set, whether the call
\* returns bytes or an error; no call changes another value.
C29_ReceiverKept ==
    [][ Serialized =>
           /\ Receiver' = IF Last'.op = "SecurityDescriptor.Binary"
                          THEN [ReceiverBefore EXCEPT
                                   !.Control = SetBit(@, SE_SELF_RELATIVE)]
                          ELSE ReceiverBefore
           /\ OthersKept ]_vars

\* C29 witness: SecurityDescriptor.Binary was called on a descriptor built
\* with the self-relative bit clear, returned an error, and the descriptor
\* now has the bit set and is otherwise as it was built
C29_Witness ==
    /\ "built" \in DOMAIN orig
    /\ Len(hist) = 1
    /\ Trace[1] = <<"SecurityDescriptor.Binary", "orig">>
    /\ IsErr(Out)
    /\ ~HasBit(orig.built.Control, SE_SELF_RELATIVE)
    /\ HasBit(orig.v.Control, SE_SELF_RELATIVE)
    /\ orig.v = [orig.built EXCEPT !.Control = @ + SE_SELF_RELATIVE]
    /\ Receiver = orig.v

----------------------------------------------------------------------------
(* Properties of the descriptors the string parser returns *)

\* ParseSecurityDescriptorString was the first call of the session, made on
\* the text the session started from, and returned a descriptor
ReturnedFromText ==
    /\ orig.ty = "string"
    /\ Len(hist) >= 1
    /\ Trace[1] = <<"ParseSecurityDescriptorString", "orig">>
    /\ IsOk(hist[1].res)

\* the ACLs of a descriptor
ACLsOf(sd) ==
    (IF sd.DACL = Nil THEN {} ELSE {sd.DACL[1]}) \cup (IF sd.SACL = Nil THEN {} ELSE {sd.SACL[1]})

\* the bytes the encoders write for a SID, an ACE and an ACL
EncodedSID(sid) == 8 + 4 * Len(sid.SubAuthority)
EncodedACE(ace) == 8 + EncodedSID(ace.SID[1])
EncodedACL(acl) == 8 + Sum([i \in 1..Len(acl.ACEs) |-> EncodedACE(acl.ACEs[i])])

WithinBounds(sid) ==
    /\ sid.Revision = 1
    /\ Len(sid.SubAuthority) <= 15
    /\ sid.IdentifierAuthority[1] = 0
    /\ sid.IdentifierAuthority[2] = 0

\* what SecurityDescriptor.Binary asks of a descriptor
Encodable(sd) ==
    /\ \A sp \in {sd.OwnerSID, sd.GroupSID} : sp # Nil => WithinBounds(sp[1])
    /\ \A acl \in ACLsOf(sd) :
          /\ \A i \in 1..Len(acl.ACEs) :
                /\ acl.ACEs[i].Header # Nil
                /\ acl.ACEs[i].SID # Nil
                /\ WithinBounds(acl.ACEs[i].SID[1])
                /\ acl.ACEs[i].Header[1].AceSize = EncodedACE(acl.ACEs[i])
          /\ acl.AclSize = EncodedACL(acl)
          /\ acl.AceCount = Len(acl.ACEs)
    /\ HasBit(sd.Control, SE_DACL_PRESENT) <=> sd.DACL # Nil
    /\ HasBit(sd.Control, SE_SACL_PRESENT) <=> sd.SACL # Nil

\* C30: a descriptor ParseSecurityDescriptorString returns, each ACL of
\* which takes at most 65535 bytes, has SIDs within bounds, the AceSize,
\* AclSize and AceCount the encoders compute and present bits that agree with
\* its DACL and SACL fields, and SecurityDescriptor.Binary called on it
\* returns bytes.
C30_ParsedTextEncodes ==
    (ReturnedFromText /\ \A acl \in ACLsOf(hist[1].res.val) : EncodedACL(acl) <= 65535) =>
        /\ Encodable(hist[1].res.val)
        /\ (Len(hist) >= 2 /\ Trace[2] = <<"SecurityDescriptor.Binary", "out">>) =>
              IsOk(hist[2].res)

\* C30 witness: a text with a DACL of
\* two ACEs, one with a SID of fifteen sub-authorities, and a SACL was
\* parsed, and Binary() on the descriptor returned the 20 + 8 + 76 + 20 + 8
\* + 20 bytes of its encoding
C30_Witness ==
    /\ ReturnedFromText
    /\ hist[1].res.val.DACL # Nil
    /\ hist[1].res.val.SACL # Nil
    /\ Len(hist[1].res.val.DACL[1].ACEs) = 2
    /\ hist[1].res.val.DACL[1].ACEs[1].Header[1].AceSize = 76
    /\ hist[1].res.val.DACL[1].AclSize = 8 + 76 + 16
    /\ Len(hist) = 2
    /\ Trace[2] = <<"SecurityDescriptor.Binary", "out">>
    /\ IsOk(hist[2].res)
    /\ Len(hist[2].res.val) = 20 + (8 + 20) + (8 + 76 + 16)

====
